---- MODULE Spec2Model ----
(***************************************************************************)
(* Olova Router: route resolution and the loader/action lifecycle of       *)
(* RouteWithLoader, modelled from apps/olova-router/src/components.        *)
(*                                                                         *)
(* A JavaScript string is a sequence of one-character strings, so that     *)
(* split, includes, startsWith and length are computed as the code does.   *)
(***************************************************************************)
EXTENDS Integers, Sequences, FiniteSets, TLC

(***************************************************************************)
(* String helpers (String.prototype.split / includes / startsWith / join)  *)
(***************************************************************************)
Includes(s, c) == \E i \in 1..Len(s) : s[i] = c

FirstIndex(s, c) == CHOOSE i \in 1..Len(s) : s[i] = c /\ \A j \in 1..(i-1) : s[j] # c

RECURSIVE Split(_, _)
Split(s, c) ==
    IF ~Includes(s, c) THEN <<s>>
    ELSE LET k == FirstIndex(s, c)
         IN  <<SubSeq(s, 1, k-1)>> \o Split(SubSeq(s, k+1, Len(s)), c)

FilterBoolean(parts) == SelectSeq(parts, LAMBDA p : p # <<>>)

StartsWith(s, prefix) ==
    /\ Len(prefix) <= Len(s)
    /\ SubSeq(s, 1, Len(prefix)) = prefix

RECURSIVE Join(_, _)
Join(parts, c) ==
    IF parts = <<>> THEN <<>>
    ELSE IF Len(parts) = 1 THEN parts[1]
    ELSE parts[1] \o <<c>> \o Join(Tail(parts), c)

(***************************************************************************)
(* Record<string, string>: an object is a function from its keys.          *)
(***************************************************************************)
EmptyObject == [k \in {} |-> <<>>]

SetKey(obj, key, val) ==
    [k \in (DOMAIN obj) \cup {key} |-> IF k = key THEN val ELSE obj[k]]

(***************************************************************************)
(* matchRoute(pattern, pathname)                                           *)
(***************************************************************************)
NoMatch == [match |-> FALSE, params |-> EmptyObject]

RECURSIVE MatchFrom(_, _, _, _)
MatchFrom(patternParts, pathParts, i, params) ==
    IF i > Len(patternParts)
    THEN IF Len(pathParts) > Len(patternParts)
         THEN NoMatch
         ELSE [match |-> TRUE, params |-> params]
    ELSE IF patternParts[i] = <<"*">>
    THEN [match  |-> TRUE,
          params |-> SetKey(params, <<"s","l","u","g">>,
                            Join(SubSeq(pathParts, i, Len(pathParts)), "/"))]
    ELSE IF i > Len(pathParts)
    THEN NoMatch
    ELSE IF patternParts[i][1] = ":"
    THEN MatchFrom(patternParts, pathParts, i + 1,
                   SetKey(params, Tail(patternParts[i]), pathParts[i]))
    ELSE IF patternParts[i] # pathParts[i]
    THEN NoMatch
    ELSE MatchFrom(patternParts, pathParts, i + 1, params)

(* matchRoute as it would be without the final length check: a pathname   *)
(* with more segments than the pattern still matches.                     *)
matchRouteIgnoringSurplus(pattern, pathname) ==
    LET patternParts == FilterBoolean(Split(pattern, "/"))
        pathParts    == FilterBoolean(Split(pathname, "/"))
    IN  MatchFrom(patternParts,
                  IF Len(pathParts) > Len(patternParts)
                  THEN SubSeq(pathParts, 1, Len(patternParts)) ELSE pathParts,
                  1, EmptyObject)

(* matchRoute as it would be without filter(Boolean) on the pathname. *)
matchRouteKeepingEmptySegments(pattern, pathname) ==
    MatchFrom(FilterBoolean(Split(pattern, "/")), Split(pathname, "/"), 1, EmptyObject)

(* matchRoute as it would be with pathname.slice(1).split('/') and no      *)
(* filter: an empty segment inside or at the end of the pathname counts.   *)
matchRouteCountingEmptySegments(pattern, pathname) ==
    MatchFrom(FilterBoolean(Split(pattern, "/")),
              IF pathname = <<>> \/ pathname = <<"/">> THEN <<>>
              ELSE IF pathname[1] = "/" THEN Split(Tail(pathname), "/")
              ELSE Split(pathname, "/"),
              1, EmptyObject)

(* matchRoute as it would be if '*' needed a segment to consume. *)
matchRouteCatchAllNeedsSegment(pattern, pathname) ==
    LET patternParts == FilterBoolean(Split(pattern, "/"))
        pathParts    == FilterBoolean(Split(pathname, "/"))
    IN  IF /\ patternParts # <<>>
           /\ patternParts[Len(patternParts)] = <<"*">>
           /\ Len(pathParts) < Len(patternParts)
        THEN NoMatch
        ELSE MatchFrom(patternParts, pathParts, 1, EmptyObject)

matchRoute(pattern, pathname) ==
    MatchFrom(FilterBoolean(Split(pattern, "/")),
              FilterBoolean(Split(pathname, "/")), 1, EmptyObject)

(* matchLayoutScope as it would be with pathname.startsWith(layoutPath). *)
matchLayoutScopeByPrefix(layoutPath, pathname) ==
    IF layoutPath = <<"/">> THEN TRUE
    ELSE StartsWith(pathname, layoutPath)

matchLayoutScope(layoutPath, pathname) ==
    IF layoutPath = <<"/">> THEN TRUE
    ELSE pathname = layoutPath \/ StartsWith(pathname, layoutPath \o <<"/">>)

(***************************************************************************)
(* Search params.  SearchParams (Record<string, string | string[]>) is the *)
(* sequence of the object's entries in insertion order; a value carries    *)
(* whether it is an array, a string being the one element of values.  A    *)
(* value that is no array and has no element is null (or undefined, which  *)
(* the code treats alike).  URLSearchParams is a sequence of <<name,       *)
(* value>> pairs.                                                          *)
(*                                                                         *)
(* application/x-www-form-urlencoded: the serializer writes ' ' as '+' and *)
(* every other character outside [A-Za-z0-9*-._] as %XX; the parser reads  *)
(* '+' as ' ' and %XX as the character.  PercentCode holds the codes of    *)
(* the characters of the model that are written as %XX.                    *)
(***************************************************************************)
PercentCode ==
    ("&" :> <<"2","6">>) @@ ("=" :> <<"3","D">>) @@ ("+" :> <<"2","B">>) @@
    ("%" :> <<"2","5">>) @@ ("?" :> <<"3","F">>) @@ ("/" :> <<"2","F">>)

(* FormDecode as it would be if nothing were decoded. *)
FormDecodeNothing(s) == s

RECURSIVE FormDecode(_)
FormDecode(s) ==
    IF s = <<>> THEN <<>>
    ELSE IF s[1] = "+" THEN <<" ">> \o FormDecode(Tail(s))
    ELSE IF /\ s[1] = "%"
            /\ Len(s) >= 3
            /\ \E c \in DOMAIN PercentCode : PercentCode[c] = <<s[2], s[3]>>
    THEN <<CHOOSE c \in DOMAIN PercentCode : PercentCode[c] = <<s[2], s[3]>> >>
         \o FormDecode(SubSeq(s, 4, Len(s)))
    ELSE <<s[1]>> \o FormDecode(Tail(s))

RECURSIVE FormEncode(_)
FormEncode(s) ==
    IF s = <<>> THEN <<>>
    ELSE (IF s[1] = " " THEN <<"+">>
          ELSE IF s[1] \in DOMAIN PercentCode THEN <<"%">> \o PercentCode[s[1]]
          ELSE <<s[1]>>)
         \o FormEncode(Tail(s))

URLSearchParamsOf(search) ==
    LET s      == IF search # <<>> /\ search[1] = "?" THEN Tail(search) ELSE search
        pieces == FilterBoolean(Split(s, "&"))
        Pair(p) == IF Includes(p, "=")
                   THEN LET k == FirstIndex(p, "=")
                        IN  <<FormDecode(SubSeq(p, 1, k-1)),
                              FormDecode(SubSeq(p, k+1, Len(p)))>>
                   ELSE <<FormDecode(p), <<>>>>
    IN  [i \in 1..Len(pieces) |-> Pair(pieces[i])]

GetAll(pairs, key) ==
    LET hits == SelectSeq(pairs, LAMBDA p : p[1] = key)
    IN  [i \in 1..Len(hits) |-> hits[i][2]]

parseSearchParams(search) ==
    LET pairs == URLSearchParamsOf(search)
        first == SelectSeq([i \in 1..Len(pairs) |-> i],
                           LAMBDA i : \A j \in 1..(i-1) : pairs[j][1] # pairs[i][1])
    IN  [n \in 1..Len(first) |->
            LET key    == pairs[first[n]][1]
                values == GetAll(pairs, key)
            IN  [key |-> key, isArray |-> Len(values) # 1, values |-> values]]

(* URLSearchParams.append, .set and .toString (AppendPair, SetPair,     *)
(* SerializePairs).                                                       *)
AppendPair(pairs, name, value) == pairs \o << <<name, value>> >>

SetPair(pairs, name, value) ==
    IF \A i \in 1..Len(pairs) : pairs[i][1] # name
    THEN AppendPair(pairs, name, value)
    ELSE LET first == CHOOSE i \in 1..Len(pairs) :
                         pairs[i][1] = name /\ \A j \in 1..(i-1) : pairs[j][1] # name
             kept  == SelectSeq([i \in 1..Len(pairs) |-> <<i, pairs[i]>>],
                                LAMBDA ip : ip[2][1] # name \/ ip[1] = first)
         IN  [n \in 1..Len(kept) |->
                 IF kept[n][1] = first THEN <<name, value>> ELSE kept[n][2]]

SerializePairs(pairs) ==
    Join([i \in 1..Len(pairs) |->
             FormEncode(pairs[i][1]) \o <<"=">> \o FormEncode(pairs[i][2])], "&")

IsNullValue(e) == ~e.isArray /\ e.values = <<>>

RECURSIVE AppendAll(_, _, _)
AppendAll(pairs, name, values) ==
    IF values = <<>> THEN pairs
    ELSE AppendAll(AppendPair(pairs, name, Head(values)), name, Tail(values))

RECURSIVE PairsOfEntries(_, _)
PairsOfEntries(entries, pairs) ==
    IF entries = <<>> THEN pairs
    ELSE LET e == Head(entries)
         IN  PairsOfEntries(Tail(entries),
                 IF IsNullValue(e) THEN pairs
                 ELSE IF e.isArray THEN AppendAll(pairs, e.key, e.values)
                 ELSE SetPair(pairs, e.key, e.values[1]))

(* buildSearchString as it would be with set() for the elements of a list. *)
buildSearchStringSettingEach(params) ==
    LET setAll == [i \in 1..Len(params) |->
                      IF params[i].isArray /\ params[i].values # <<>>
                      THEN [params[i] EXCEPT !.isArray = FALSE,
                                             !.values = <<params[i].values[Len(params[i].values)]>>]
                      ELSE params[i]]
        str == SerializePairs(PairsOfEntries(setAll, <<>>))
    IN  IF str = <<>> THEN <<>> ELSE <<"?">> \o str

buildSearchString(params) ==
    LET str == SerializePairs(PairsOfEntries(params, <<>>))
    IN  IF str = <<>> THEN <<>> ELSE <<"?">> \o str

RECURSIVE searchParamsForLoader(_)
searchParamsForLoader(sp) ==
    IF sp = <<>> THEN <<>>
    ELSE LET e == Head(sp)
         IN  [i \in 1..Len(e.values) |-> <<e.key, e.values[i]>>]
             \o searchParamsForLoader(Tail(sp))

(***************************************************************************)
(* The route table handed to OlovaRouter (props routes, layouts).  A       *)
(* RouteDefinition records which of clientOnly's options are set; a route  *)
(* without routeDefinition has none of them.                               *)
(***************************************************************************)
clientOnly(loader, action, beforeEnter, errorComponent, pendingComponent) ==
    [loader |-> loader, action |-> action, beforeEnter |-> beforeEnter,
     errorComponent |-> errorComponent, pendingComponent |-> pendingComponent]

NoRouteDefinition == clientOnly(FALSE, FALSE, FALSE, FALSE, FALSE)

routes ==
    << [path |-> <<"/">>, component |-> "Home",
        routeDefinition |-> NoRouteDefinition],
       [path |-> <<"/","u","/",":","i","d">>, component |-> "User",
        routeDefinition |-> clientOnly(TRUE, FALSE, FALSE, FALSE, TRUE)],
       [path |-> <<"/","a">>, component |-> "About",
        routeDefinition |-> clientOnly(TRUE, TRUE, FALSE, TRUE, FALSE)],
       [path |-> <<"/","g">>, component |-> "Guarded",
        routeDefinition |-> clientOnly(TRUE, TRUE, TRUE, TRUE, FALSE)] >>

layouts == << [path |-> <<"/","u">>, layout |-> "UserLayout"] >>

(* CompareRoutes as it would be without the tiers: length alone. *)
CompareRoutesByLength(a, b) == Len(b.path) - Len(a.path)

(* The comparator of sortedRoutes: > 0 when a sorts after b. *)
CompareRoutes(a, b) ==
    LET aHasCatchAll == Includes(a.path, "*")
        bHasCatchAll == Includes(b.path, "*")
        aHasDynamic  == Includes(a.path, ":")
        bHasDynamic  == Includes(b.path, ":")
    IN  IF aHasCatchAll /\ ~bHasCatchAll THEN 1
        ELSE IF ~aHasCatchAll /\ bHasCatchAll THEN -1
        ELSE IF aHasDynamic /\ ~bHasDynamic THEN 1
        ELSE IF ~aHasDynamic /\ bHasDynamic THEN -1
        ELSE Len(b.path) - Len(a.path)

(* Array.prototype.sort is stable: insertion behind every element that    *)
(* does not sort after the new one.                                       *)
RECURSIVE InsertRoute(_, _)
InsertRoute(sorted, x) ==
    IF sorted = <<>> THEN <<x>>
    ELSE IF CompareRoutes(Head(sorted), x) > 0 THEN <<x>> \o sorted
    ELSE <<Head(sorted)>> \o InsertRoute(Tail(sorted), x)

RECURSIVE SortRoutes(_)
SortRoutes(xs) ==
    IF xs = <<>> THEN <<>>
    ELSE InsertRoute(SortRoutes(SubSeq(xs, 1, Len(xs) - 1)), xs[Len(xs)])

sortedRoutes == SortRoutes(routes)

(* The match loop of OlovaRouter: the first route of sortedRoutes that     *)
(* matches, with its params; matched is FALSE when the loop ends without.  *)
RECURSIVE MatchLoop(_, _)
MatchLoop(rs, path) ==
    IF rs = <<>>
    THEN [matched |-> FALSE, component |-> "null",
          routeDefinition |-> NoRouteDefinition, params |-> EmptyObject]
    ELSE LET route == Head(rs)
         IN  IF route.path = <<"/">> /\ path = <<"/">>
             THEN [matched |-> TRUE, component |-> route.component,
                   routeDefinition |-> route.routeDefinition, params |-> EmptyObject]
             ELSE LET result == matchRoute(route.path, path)
                  IN  IF result.match
                      THEN [matched |-> TRUE, component |-> route.component,
                            routeDefinition |-> route.routeDefinition,
                            params |-> result.params]
                      ELSE MatchLoop(Tail(rs), path)

(* currentRoute (useMemo): the route the same loop returns, null without. *)
RECURSIVE currentRoute(_, _)
currentRoute(rs, path) ==
    IF rs = <<>> THEN [kind |-> "null"]
    ELSE IF Head(rs).path = <<"/">> /\ path = <<"/">> THEN Head(rs)
    ELSE IF matchRoute(Head(rs).path, path).match THEN Head(rs)
    ELSE currentRoute(Tail(rs), path)

LayoutCompare(a, b) == Len(a.path) - Len(b.path)

RECURSIVE InsertLayout(_, _)
InsertLayout(sorted, x) ==
    IF sorted = <<>> THEN <<x>>
    ELSE IF LayoutCompare(Head(sorted), x) > 0 THEN <<x>> \o sorted
    ELSE <<Head(sorted)>> \o InsertLayout(Tail(sorted), x)

RECURSIVE SortLayouts(_)
SortLayouts(xs) ==
    IF xs = <<>> THEN <<>>
    ELSE InsertLayout(SortLayouts(SubSeq(xs, 1, Len(xs) - 1)), xs[Len(xs)])

(* matchingLayouts for a layouts prop and a pathname. *)
MatchingLayoutsOf(ls, path) ==
    SortLayouts(SelectSeq(ls, LAMBDA l : matchLayoutScope(l.path, path)))

LayoutChain(path) == MatchingLayoutsOf(layouts, path)

(***************************************************************************)
(* renderContent: the content wrapped in the matching layouts, from the    *)
(* last of the chain to the first.  A layout renders what it is handed     *)
(* through OutletContext at its outlet.                                    *)
(***************************************************************************)
RECURSIVE WrapFrom(_, _, _)
WrapFrom(chain, i, result) ==
    IF i < 1 THEN result
    ELSE WrapFrom(chain, i - 1,
                  [kind |-> "layout", layout |-> chain[i].layout, outlet |-> result])

RECURSIVE WrapUpTo(_, _, _)
WrapUpTo(chain, i, result) ==
    IF i > Len(chain) THEN result
    ELSE WrapUpTo(chain, i + 1,
                  [kind |-> "layout", layout |-> chain[i].layout, outlet |-> result])

(* renderContent as it would be with the loop running from the first       *)
(* layout of the chain to the last.                                        *)
renderContentForward(content, chain) ==
    IF Len(chain) = 0 THEN content ELSE WrapUpTo(chain, 1, content)

renderContent(content, chain) ==
    IF Len(chain) = 0 THEN content ELSE WrapFrom(chain, Len(chain), content)

(***************************************************************************)
(* findNotFoundPage(path, notFoundPages); "null" when it returns null.     *)
(***************************************************************************)
CompareNotFound(a, b) == Len(b.pathPrefix) - Len(a.pathPrefix)

RECURSIVE InsertNotFound(_, _)
InsertNotFound(sorted, x) ==
    IF sorted = <<>> THEN <<x>>
    ELSE IF CompareNotFound(Head(sorted), x) > 0 THEN <<x>> \o sorted
    ELSE <<Head(sorted)>> \o InsertNotFound(Tail(sorted), x)

RECURSIVE SortNotFound(_)
SortNotFound(xs) ==
    IF xs = <<>> THEN <<>>
    ELSE InsertNotFound(SortNotFound(SubSeq(xs, 1, Len(xs) - 1)), xs[Len(xs)])

RECURSIVE FirstNotFound(_, _)
FirstNotFound(sorted, path) ==
    IF sorted = <<>> THEN "null"
    ELSE LET nf == Head(sorted)
         IN  IF nf.pathPrefix = <<>> THEN nf.component
             ELSE IF path = nf.pathPrefix \/ StartsWith(path, nf.pathPrefix \o <<"/">>)
             THEN nf.component
             ELSE FirstNotFound(Tail(sorted), path)

(* findNotFoundPage as it would be without the sort. *)
findNotFoundPageInListOrder(path, notFoundPages) ==
    IF Len(notFoundPages) = 0 THEN "null" ELSE FirstNotFound(notFoundPages, path)

findNotFoundPage(path, notFoundPages) ==
    IF Len(notFoundPages) = 0 THEN "null"
    ELSE FirstNotFound(SortNotFound(notFoundPages), path)

(* The strings navigate() is called with, and the pathnames they lead to. *)
NavTargets ==
    { <<"/">>,
      <<"/","a">>,
      <<"/","a","?","q","=","1">>,
      <<"/","g">>,
      <<"/","u","/","1">> }

(* The URLs of the session history when back and forward are followed. *)
ReloadTargets == NavTargets \cup { <<"/","u","/","2">> }

Pathnames ==
    {Split(path, "?")[1] : path \in NavTargets \cup ReloadTargets} \cup { <<"/","b">> }

(* Selection depends on the pathname alone (useMemo on currentPath): it is *)
(* computed once for each pathname of the model.                           *)
selection ==
    [path \in Pathnames |->
        [match |-> MatchLoop(sortedRoutes, path), layouts |-> LayoutChain(path)]]

Matched(path) == selection[path].match

matchingLayouts(path) == selection[path].layouts

(* renderContent puts <RouteWithLoader> in the tree when the matched route *)
(* has a routeDefinition with a loader.                                    *)
RendersRouteWithLoader(path) ==
    Matched(path).matched /\ Matched(path).routeDefinition.loader

(***************************************************************************)
(* State.  currentPath and searchParams are OlovaRouter's state; the six   *)
(* useState cells of the mounted RouteWithLoader instance follow.  runs    *)
(* and submits are the runLoader and submitAction calls of the mounted     *)
(* instance that are suspended at an await.  The calls of an instance that *)
(* has been unmounted are not kept: what is left of them only sets state   *)
(* of the unmounted instance, which does nothing.                          *)
(*                                                                         *)
(* windowHistory and windowIndex are window.history: the session history's *)
(* URLs and the position of the current entry.  The lifecycle never reads  *)
(* them; Spec leaves them aside and SpecNav follows them.  updates holds   *)
(* the values handed to setCurrentPath and setSearchParamsState that React *)
(* has not rendered yet: currentPath and searchParams, which the handlers  *)
(* close over, keep the rendered values until Render; calls counts the     *)
(* handler calls and popstate events.  Spec takes navigate together with   *)
(* the render that follows it.  call is the                                *)
(* application of one of the pure helpers (matching, selection, 404        *)
(* resolution, layout wrapping, search-string codec) to arguments.         *)
(***************************************************************************)
VARIABLES currentPath, searchParams,
          mounted, effectPending,
          loaderData, loaderError, isLoading,
          actionData, actionError, isSubmitting,
          runs, submits, nextRun, nextSubmit,
          windowHistory, windowIndex, updates, calls, call

vars == <<currentPath, searchParams, mounted, effectPending,
          loaderData, loaderError, isLoading,
          actionData, actionError, isSubmitting,
          runs, submits, nextRun, nextSubmit,
          windowHistory, windowIndex, updates, calls, call>>

routerVars == <<currentPath, searchParams>>
windowVars == <<windowHistory, windowIndex>>
lifecycleVars == <<mounted, effectPending, loaderData, loaderError, isLoading,
                   actionData, actionError, isSubmitting,
                   runs, submits, nextRun, nextSubmit>>
loaderVars == <<loaderData, loaderError, isLoading>>
actionVars == <<actionData, actionError, isSubmitting>>

(* Bounds of the model: runLoader calls and submitAction calls explored. *)
MaxRuns == 3
MaxSubmits == 2

(* Values held by the state cells. *)
Null == [kind |-> "null"]
Undefined == [kind |-> "undefined"]
LoaderResult(props) == [kind |-> "data", from |-> "loader", props |-> props]
LoaderFailure(props) == [kind |-> "error", from |-> "loader", props |-> props]
GuardFailure(props) == [kind |-> "error", from |-> "beforeEnter", props |-> props]
ActionResult(props) == [kind |-> "data", from |-> "action", props |-> props]
ActionFailure(props) == [kind |-> "error", from |-> "action", props |-> props]

LoaderState == [data |-> loaderData, isLoading |-> isLoading, error |-> loaderError]

(* The props OlovaRouter.renderContent passes to RouteWithLoader. *)
PropsFor(path, sp) ==
    LET m == Matched(path)
    IN  [component |-> m.component, routeDefinition |-> m.routeDefinition,
         params |-> m.params, searchParams |-> searchParamsForLoader(sp)]

CurrentProps == PropsFor(currentPath, searchParams)

(* The render branches of RouteWithLoader. *)
View ==
    IF ~mounted THEN "none"
    ELSE IF isLoading THEN "pending"
    ELSE IF loaderError # Null /\ CurrentProps.routeDefinition.errorComponent THEN "error"
    ELSE "page"

RunIds(rs) == {r.id : r \in rs}
SubmitIds(ss) == {s.id : s \in ss}

(* A call of runLoader needs a free id; a submission whose action has not  *)
(* settled holds one back for the runLoader call it will make.             *)
AwaitingAction == {s \in submits : s.phase = "action"}
CanStartRun == (nextRun - 1) + Cardinality(AwaitingAction) + 1 <= MaxRuns

(* React keeps the RouteWithLoader instance (and its state) when the new   *)
(* render puts the same element at the same place of the tree: under the   *)
(* same chain of layouts.                                                  *)
KeepsInstance(oldPath, newPath) ==
    /\ RendersRouteWithLoader(oldPath)
    /\ RendersRouteWithLoader(newPath)
    /\ matchingLayouts(oldPath) = matchingLayouts(newPath)

NoCall == [fn |-> "none"]

NoUpdate == [set |-> FALSE, value |-> <<>>]
Update(value) == [set |-> TRUE, value |-> value]
NoUpdates == [currentPath |-> NoUpdate, searchParams |-> NoUpdate]

WindowAside ==
    /\ windowHistory = <<>>
    /\ windowIndex = 0

InitialCells ==
    /\ loaderData = Null
    /\ loaderError = Null
    /\ actionData = Undefined
    /\ actionError = Null
    /\ isSubmitting = FALSE

Init ==
    /\ \E path \in NavTargets :
          /\ currentPath = Split(path, "?")[1]
          /\ searchParams = parseSearchParams(IF Includes(path, "?")
                                              THEN Split(path, "?")[2] ELSE <<>>)
    /\ mounted = RendersRouteWithLoader(currentPath)
    /\ effectPending = mounted
    /\ isLoading = mounted
    /\ InitialCells
    /\ runs = {}
    /\ submits = {}
    /\ nextRun = 1
    /\ nextSubmit = 1
    /\ WindowAside
    /\ updates = NoUpdates
    /\ calls = 0
    /\ call = NoCall

(***************************************************************************)
(* runLoader up to its first await: the state cells it sets and the        *)
(* suspended call it leaves behind.  props is what the closure captured    *)
(* (routeDefinition, params, searchParams); the signal of the call's       *)
(* AbortController is not aborted; phase says which await the call is      *)
(* suspended at.  prior is the LoaderState the call found.                 *)
(***************************************************************************)
(* runLoader as it would be if the loader were called without awaiting     *)
(* beforeEnter.                                                            *)
runLoaderWithoutGuard(props, origin, parent) ==
    IF ~props.routeDefinition.loader
    THEN UNCHANGED <<loaderError, isLoading, runs, nextRun>>
    ELSE /\ runs' = runs \cup
                {[id      |-> nextRun,
                  props   |-> props,
                  aborted |-> FALSE,
                  phase   |-> "loader",
                  origin  |-> origin,
                  parent  |-> parent,
                  prior   |-> LoaderState]}
         /\ nextRun' = nextRun + 1
         /\ isLoading' = TRUE
         /\ loaderError' = Null

runLoader(props, origin, parent) ==
    IF ~props.routeDefinition.loader
    THEN UNCHANGED <<loaderError, isLoading, runs, nextRun>>
    ELSE /\ runs' = runs \cup
                {[id      |-> nextRun,
                  props   |-> props,
                  aborted |-> FALSE,
                  phase   |-> IF props.routeDefinition.beforeEnter
                              THEN "beforeEnter" ELSE "loader",
                  origin  |-> origin,
                  parent  |-> parent,
                  prior   |-> LoaderState]}
         /\ nextRun' = nextRun + 1
         /\ isLoading' = TRUE
         /\ loaderError' = Null

(***************************************************************************)
(* The render that follows a change of the Location (LocationRendered),    *)
(* and navigate(path) with that render.  The effect of the new render      *)
(* (useEffect on runLoader, which is a new callback whenever OlovaRouter   *)
(* renders, params being a new object) runs as RunEffect.                  *)
(***************************************************************************)
(* LocationRendered as it would be if the effect ran on mount only: a      *)
(* RouteWithLoader instance that is kept is not loaded again.              *)
LocationRenderedEffectOnMount(newPath, newSearch) ==
    /\ ~effectPending
    /\ RendersRouteWithLoader(newPath) => CanStartRun
    /\ currentPath' = newPath
    /\ searchParams' = newSearch
    /\ mounted' = RendersRouteWithLoader(newPath)
    /\ IF mounted /\ KeepsInstance(currentPath, newPath)
       THEN /\ effectPending' = FALSE
            /\ UNCHANGED <<loaderVars, actionVars, runs, submits>>
       ELSE /\ effectPending' = RendersRouteWithLoader(newPath)
            /\ loaderData' = Null
            /\ loaderError' = Null
            /\ isLoading' = RendersRouteWithLoader(newPath)
            /\ actionData' = Undefined
            /\ actionError' = Null
            /\ isSubmitting' = FALSE
            /\ runs' = {}
            /\ submits' = {}
    /\ UNCHANGED <<nextRun, nextSubmit>>

LocationRendered(newPath, newSearch) ==
    /\ ~effectPending
    /\ RendersRouteWithLoader(newPath) => CanStartRun
    /\ currentPath' = newPath
    /\ searchParams' = newSearch
    /\ mounted' = RendersRouteWithLoader(newPath)
    /\ effectPending' = RendersRouteWithLoader(newPath)
    /\ IF mounted /\ KeepsInstance(currentPath, newPath)
       THEN UNCHANGED <<loaderVars, actionVars, runs, submits>>
       ELSE /\ loaderData' = Null
            /\ loaderError' = Null
            /\ isLoading' = RendersRouteWithLoader(newPath)
            /\ actionData' = Undefined
            /\ actionError' = Null
            /\ isSubmitting' = FALSE
            /\ runs' = {}
            /\ submits' = {}
    /\ UNCHANGED <<nextRun, nextSubmit>>

navigate(path) ==
    /\ LocationRendered(Split(path, "?")[1],
                        parseSearchParams(IF Includes(path, "?")
                                          THEN Split(path, "?")[2] ELSE <<>>))
    /\ UNCHANGED <<windowVars, updates, calls, call>>

RunEffect ==
    /\ effectPending
    /\ effectPending' = FALSE
    /\ runLoader(CurrentProps, "effect", 0)
    /\ UNCHANGED <<routerVars, mounted, loaderData, actionVars, submits, nextSubmit>>
    /\ UNCHANGED <<windowVars, updates, calls, call>>

(* retry is handed to the errorComponent only. *)
retry ==
    /\ ~effectPending
    /\ View = "error"
    /\ CanStartRun
    /\ runLoader(CurrentProps, "retry", 0)
    /\ UNCHANGED <<routerVars, mounted, effectPending, loaderData, actionVars,
                   submits, nextSubmit>>
    /\ UNCHANGED <<windowVars, updates, calls, call>>

(***************************************************************************)
(* The continuations of runLoader after await beforeEnter(...) and after   *)
(* await loader(...), each with the finally block.                         *)
(***************************************************************************)
GuardAllows(r) ==
    /\ ~effectPending
    /\ r \in runs /\ r.phase = "beforeEnter"
    /\ runs' = (runs \ {r}) \cup {[r EXCEPT !.phase = "loader"]}
    /\ UNCHANGED <<routerVars, mounted, effectPending, loaderVars, actionVars,
                   submits, nextRun, nextSubmit>>
    /\ UNCHANGED <<windowVars, updates, calls, call>>

(* GuardDenies as it would be without the finally block. *)
GuardDeniesWithoutFinally(r) ==
    /\ ~effectPending
    /\ r \in runs /\ r.phase = "beforeEnter"
    /\ runs' = runs \ {r}
    /\ UNCHANGED <<routerVars, mounted, effectPending, loaderVars,
                   actionVars, submits, nextRun, nextSubmit>>
    /\ UNCHANGED <<windowVars, updates, calls, call>>

GuardDenies(r) ==
    /\ ~effectPending
    /\ r \in runs /\ r.phase = "beforeEnter"
    /\ runs' = runs \ {r}
    /\ isLoading' = FALSE
    /\ UNCHANGED <<routerVars, mounted, effectPending, loaderData, loaderError,
                   actionVars, submits, nextRun, nextSubmit>>
    /\ UNCHANGED <<windowVars, updates, calls, call>>

GuardThrows(r) ==
    /\ ~effectPending
    /\ r \in runs /\ r.phase = "beforeEnter"
    /\ runs' = runs \ {r}
    /\ loaderError' = GuardFailure(r.props)
    /\ isLoading' = FALSE
    /\ UNCHANGED <<routerVars, mounted, effectPending, loaderData,
                   actionVars, submits, nextRun, nextSubmit>>
    /\ UNCHANGED <<windowVars, updates, calls, call>>

LoaderResolves(r) ==
    /\ ~effectPending
    /\ r \in runs /\ r.phase = "loader"
    /\ runs' = runs \ {r}
    /\ loaderData' = LoaderResult(r.props)
    /\ isLoading' = FALSE
    /\ UNCHANGED <<routerVars, mounted, effectPending, loaderError,
                   actionVars, submits, nextRun, nextSubmit>>
    /\ UNCHANGED <<windowVars, updates, calls, call>>

LoaderRejects(r) ==
    /\ ~effectPending
    /\ r \in runs /\ r.phase = "loader"
    /\ runs' = runs \ {r}
    /\ loaderError' = LoaderFailure(r.props)
    /\ isLoading' = FALSE
    /\ UNCHANGED <<routerVars, mounted, effectPending, loaderData,
                   actionVars, submits, nextRun, nextSubmit>>
    /\ UNCHANGED <<windowVars, updates, calls, call>>

(***************************************************************************)
(* submitAction up to await action(...), and its continuations.  submit    *)
(* reaches the page through ActionDataContext, so it is called while the   *)
(* page component is rendered.                                             *)
(***************************************************************************)
submitAction ==
    /\ ~effectPending
    /\ View = "page"
    /\ CurrentProps.routeDefinition.action
    /\ nextSubmit <= MaxSubmits
    /\ CanStartRun
    /\ isSubmitting' = TRUE
    /\ actionError' = Null
    /\ submits' = submits \cup
            {[id |-> nextSubmit, props |-> CurrentProps, phase |-> "action"]}
    /\ nextSubmit' = nextSubmit + 1
    /\ UNCHANGED <<routerVars, mounted, effectPending, loaderVars, actionData,
                   runs, nextRun>>
    /\ UNCHANGED <<windowVars, updates, calls, call>>

(* ActionResolves as it would be if runLoader() were called without await: *)
(* the finally block clears isSubmitting while the re-run is pending.      *)
ActionResolvesWithoutAwait(s) ==
    /\ ~effectPending
    /\ s \in submits /\ s.phase = "action"
    /\ actionData' = ActionResult(s.props)
    /\ runLoader(s.props, "action", s.id)
    /\ submits' = (submits \ {s}) \cup {[s EXCEPT !.phase = "runLoader"]}
    /\ isSubmitting' = FALSE
    /\ UNCHANGED <<routerVars, mounted, effectPending, loaderData, actionError,
                   nextSubmit>>
    /\ UNCHANGED <<windowVars, updates, calls, call>>

(* await action(...) fulfilled: setActionData, then runLoader() is called  *)
(* and awaited.                                                            *)
ActionResolves(s) ==
    /\ ~effectPending
    /\ s \in submits /\ s.phase = "action"
    /\ actionData' = ActionResult(s.props)
    /\ runLoader(s.props, "action", s.id)
    /\ submits' = (submits \ {s}) \cup {[s EXCEPT !.phase = "runLoader"]}
    /\ UNCHANGED <<routerVars, mounted, effectPending, loaderData, actionError,
                   isSubmitting, nextSubmit>>
    /\ UNCHANGED <<windowVars, updates, calls, call>>

(* ActionRejects as it would be if the failure path reset the loader data. *)
ActionRejectsClearingData(s) ==
    /\ ~effectPending
    /\ s \in submits /\ s.phase = "action"
    /\ submits' = submits \ {s}
    /\ actionError' = ActionFailure(s.props)
    /\ isSubmitting' = FALSE
    /\ loaderData' = Null
    /\ UNCHANGED <<routerVars, mounted, effectPending, loaderError, isLoading,
                   actionData, runs, nextRun, nextSubmit>>
    /\ UNCHANGED <<windowVars, updates, calls, call>>

(* await action(...) rejected: catch, then finally. *)
ActionRejects(s) ==
    /\ ~effectPending
    /\ s \in submits /\ s.phase = "action"
    /\ submits' = submits \ {s}
    /\ actionError' = ActionFailure(s.props)
    /\ isSubmitting' = FALSE
    /\ UNCHANGED <<routerVars, mounted, effectPending, loaderVars, actionData,
                   runs, nextRun, nextSubmit>>
    /\ UNCHANGED <<windowVars, updates, calls, call>>

(* await runLoader() returned (runLoader catches everything): finally. *)
ActionFinishes(s) ==
    /\ ~effectPending
    /\ s \in submits /\ s.phase = "runLoader"
    /\ \A r \in runs : r.parent # s.id
    /\ submits' = submits \ {s}
    /\ isSubmitting' = FALSE
    /\ UNCHANGED <<routerVars, mounted, effectPending, loaderVars, actionData,
                   actionError, runs, nextRun, nextSubmit>>
    /\ UNCHANGED <<windowVars, updates, calls, call>>

Next ==
    \/ \E path \in NavTargets : navigate(path)
    \/ RunEffect
    \/ retry
    \/ \E r \in runs : GuardAllows(r)
    \/ \E r \in runs : GuardDenies(r)
    \/ \E r \in runs : GuardThrows(r)
    \/ \E r \in runs : LoaderResolves(r)
    \/ \E r \in runs : LoaderRejects(r)
    \/ submitAction
    \/ \E s \in submits : ActionResolves(s)
    \/ \E s \in submits : ActionRejects(s)
    \/ \E s \in submits : ActionFinishes(s)

Spec == Init /\ [][Next]_vars

(***************************************************************************)
(* Properties of the loader/action lifecycle.                              *)
(***************************************************************************)
(* A step of the mounted instance: no navigation replaces the instance. *)
SamePath == currentPath' = currentPath

Settles(r) == r.id \notin RunIds(runs')
Started(r) == r.id \notin RunIds(runs)

(* C1: the settlement of a loader invocation started for a match that a   *)
(* later navigation has replaced is discarded: it leaves LoaderState       *)
(* (data, error, isLoading) as it is.                                      *)
C1_LateSettlementDiscarded ==
    [][\A r \in runs :
          (r.origin = "effect" /\ r.props # CurrentProps /\ SamePath /\ Settles(r))
              => UNCHANGED loaderVars]_vars

(* C2: LoaderState never holds data and an error together. *)
C2_NeverDataAndError ==
    ~(loaderData # Null /\ loaderError # Null)

(* C3: when beforeEnter resolves to a falsy value the loader is not        *)
(* invoked and LoaderState is again the settled LoaderState the transition *)
(* started from.                                                           *)
C3_GuardDenialRestoresPrior ==
    [][\A r \in runs :
          (GuardDenies(r) /\ ~r.prior.isLoading)
              => (Settles(r) /\ LoaderState' = r.prior)]_vars

(* C4: retry calls the loader with the params and search params of the     *)
(* last match and does not call beforeEnter.                               *)
C4_RetrySkipsGuard ==
    [][\A r \in runs' :
          (Started(r) /\ r.origin = "retry")
              => (r.props = CurrentProps /\ r.phase # "beforeEnter")]_vars

(* C5: the signal of every loader invocation in flight for a match that    *)
(* navigation has replaced is aborted.                                     *)
C5_SupersededSignalAborted ==
    \A r \in runs : r.props # CurrentProps => r.aborted

(* C6: without a superseding navigation, retry and action submissions      *)
(* start no loader invocation while another one for the same match is      *)
(* pending.  NoSupersession: everything pending belongs to the current     *)
(* match, an invocation started by navigation is pending alone (nothing    *)
(* was in flight when the navigation came), and no settlement of an        *)
(* overlapped invocation has ended the loading state early.                *)
NoSupersession ==
    /\ \A q \in runs : q.props = CurrentProps
    /\ \A s \in submits : s.props = CurrentProps
    /\ \A q \in runs : q.origin = "effect" => (runs = {q} /\ submits = {})
    /\ runs # {} => isLoading

C6_OnePendingLoader ==
    [][NoSupersession =>
          \A r \in runs' :
              (Started(r) /\ r.origin \in {"retry", "action"})
                  => ~\E q \in runs : q.props = r.props]_vars

(* C7: a submission sets isSubmitting and calls the action; the step that  *)
(* stores the action's result starts the loader re-run and leaves          *)
(* isSubmitting as it is; the submission ends, clearing isSubmitting, only *)
(* when that re-run has settled; nothing else clears isSubmitting but the  *)
(* end of a failed submission.                                             *)
C7_SubmissionOrder ==
    [][/\ \A s \in submits' :
             s.id \notin SubmitIds(submits) => (s.phase = "action" /\ isSubmitting')
       /\ \A s \in submits :
             (s.phase = "action" /\ [s EXCEPT !.phase = "runLoader"] \in submits')
                 => /\ actionData' = ActionResult(s.props)
                    /\ isSubmitting' = isSubmitting
                    /\ \E r \in runs' :
                          Started(r) /\ r.parent = s.id /\ r.props = s.props
       /\ \A s \in submits :
             (s.phase = "runLoader" /\ SamePath /\ s.id \notin SubmitIds(submits'))
                 => /\ \A r \in runs : r.parent # s.id
                    /\ ~isSubmitting'
       /\ (isSubmitting /\ ~isSubmitting' /\ SamePath)
             => \E s \in submits :
                   /\ s.id \notin SubmitIds(submits')
                   /\ s.phase = "runLoader" => \A r \in runs : r.parent # s.id
      ]_vars

C7_Witness ==
    /\ mounted /\ submits = {} /\ runs = {}
    /\ actionData = ActionResult(CurrentProps)
    /\ ~isSubmitting
    /\ loaderData = LoaderResult(CurrentProps)

(* C8: when the action rejects, the error is stored in ActionState.error,  *)
(* isSubmitting is cleared, no loader invocation is started and            *)
(* LoaderState is left as it was.                                          *)
C8_ActionFailureFrame ==
    [][\A s \in submits :
          (s.phase = "action" /\ SamePath /\ s.id \notin SubmitIds(submits'))
              => /\ actionError' = ActionFailure(s.props)
                 /\ ~isSubmitting'
                 /\ runs' = runs
                 /\ UNCHANGED loaderVars]_vars

C8_Witness ==
    /\ mounted /\ submits = {}
    /\ actionError = ActionFailure(CurrentProps)
    /\ ~isSubmitting
    /\ loaderData = LoaderResult(CurrentProps)

(* C9: a rejection of beforeEnter or of the loader ends in LoaderState     *)
(* with the error set and isLoading false, and a retry whose loader        *)
(* succeeds ends in the loaded state with the error cleared.               *)
C9_FailureCapturedRetryRecovers ==
    [][\A r \in runs :
          /\ (GuardThrows(r) \/ LoaderRejects(r))
                => (loaderError' # Null /\ ~isLoading')
          /\ (r.origin = "retry" /\ LoaderResolves(r))
                => /\ loaderData' = LoaderResult(r.props)
                   /\ loaderError' = Null
                   /\ ~isLoading']_vars

(* C10: whenever the page component is rendered, the loader data it reads  *)
(* is the result of the route's loader for the current params and search   *)
(* params.                                                                 *)
C10_PageSeesCurrentData ==
    View = "page" => loaderData = LoaderResult(CurrentProps)

(* C24: when a guard is configured, a call is at its loader only by the    *)
(* step in which the guard of that same call resolved to a truthy value,   *)
(* and the loader gets the context the guard got: the same params and      *)
(* search params and the same signal.                                      *)
C24_GuardBeforeLoader ==
    [][\A r \in runs' :
          (r.props.routeDefinition.beforeEnter /\ r.phase = "loader" /\ r \notin runs)
              => \E q \in runs :
                    /\ q.phase = "beforeEnter"
                    /\ GuardAllows(q)
                    /\ r = [q EXCEPT !.phase = "loader"]]_vars

(* On '/g' the guard has allowed and the loader is pending. *)
C24_Witness ==
    /\ currentPath = <<"/","g">>
    /\ \E r \in runs :
          /\ r.props = CurrentProps
          /\ r.props.routeDefinition.beforeEnter
          /\ r.phase = "loader"

(* C25: the ActionState the matched route sees is its own: action data and *)
(* an action error come from a submission made on that route, and          *)
(* isSubmitting is set only while a submission made on that route is in    *)
(* flight; after navigating from one route with an action to another, the  *)
(* new route sees none of the previous route's ActionState.                *)
C25_ActionStateOfCurrentRoute ==
    mounted =>
        /\ actionData # Undefined
              => actionData.props.component = CurrentProps.component
        /\ actionError # Null
              => actionError.props.component = CurrentProps.component
        /\ isSubmitting
              => \E s \in submits : s.props.component = CurrentProps.component

(***************************************************************************)
(* The helpers applied to arguments.  They read no state of the router:    *)
(* the router is at rest and call holds the arguments, then the result.    *)
(***************************************************************************)
AtRest ==
    /\ currentPath = <<"/">>
    /\ searchParams = <<>>
    /\ mounted = FALSE
    /\ effectPending = FALSE
    /\ isLoading = FALSE
    /\ InitialCells
    /\ runs = {}
    /\ submits = {}
    /\ nextRun = 1
    /\ nextSubmit = 1
    /\ WindowAside
    /\ updates = NoUpdates
    /\ calls = 0

(* The lists of at most n elements of S, none of them twice. *)
ListsOf(S, n) ==
    UNION {{l \in [1..k -> S] : \A i, j \in 1..k : i # j => l[i] # l[j]} : k \in 0..n}

(***************************************************************************)
(* Route selection: sortedRoutes and currentRoute for a route table and a  *)
(* pathname.                                                               *)
(***************************************************************************)
MaxRoutes == 3

RoutePatterns ==
    { <<"/">>,
      <<"/","a">>,
      <<"/",":","x">>,
      <<"/","a","/","b">>,
      <<"/","a","/",":","x">>,
      <<"/","*">>,
      <<"/","a","/","*">>,
      <<"/",":","x","/","*">> }

PageRoute(pattern) ==
    [path |-> pattern, component |-> "Page", routeDefinition |-> NoRouteDefinition]

RouteTables == ListsOf({PageRoute(p) : p \in RoutePatterns}, MaxRoutes)

(* window.location.pathname, or what navigate() left of its argument. *)
SelectPathnames ==
    { <<>>,
      <<"/">>,
      <<"/","/">>,
      <<"/","a">>,
      <<"/","a","/","b">>,
      <<"/","a","/","c">>,
      <<"/","c">>,
      <<"/","a","/","b","/","c">> }

InitSelect ==
    /\ AtRest
    /\ \E table \in RouteTables, pathname \in SelectPathnames :
          call = [fn |-> "currentRoute", routes |-> table, pathname |-> pathname,
                  returned |-> FALSE, result |-> Null]

ApplyCurrentRoute ==
    /\ call.fn = "currentRoute"
    /\ ~call.returned
    /\ call' = [call EXCEPT !.returned = TRUE,
                            !.result = currentRoute(SortRoutes(call.routes),
                                                    call.pathname)]
    /\ UNCHANGED <<routerVars, lifecycleVars, windowVars, updates, calls>>

NextSelect == ApplyCurrentRoute

SpecSelect == InitSelect /\ [][NextSelect]_vars

(* The segments of a pattern, and what kind of pattern they make. *)
SegmentsOf(text) == FilterBoolean(Split(text, "/"))
HasCatchAllSegment(pattern) ==
    \E i \in 1..Len(SegmentsOf(pattern)) : SegmentsOf(pattern)[i] = <<"*">>
HasDynamicSegment(pattern) ==
    \E i \in 1..Len(SegmentsOf(pattern)) : SegmentsOf(pattern)[i][1] = ":"
IsStaticPattern(pattern) ==
    ~HasCatchAllSegment(pattern) /\ ~HasDynamicSegment(pattern)

(* The routes of the call's table that match its pathname. *)
RouteMatches(route, pathname) ==
    \/ route.path = <<"/">> /\ pathname = <<"/">>
    \/ matchRoute(route.path, pathname).match
MatchingRoutes ==
    {call.routes[i] : i \in {j \in 1..Len(call.routes) :
                                RouteMatches(call.routes[j], call.pathname)}}

(* C11: selection respects the tiers, whatever the order of the table: if  *)
(* a static route matches the pathname, the selected route is a matching   *)
(* static route; otherwise, if a route without catch-all matches, the      *)
(* selected route is a matching route without catch-all.                   *)
C11_TierOrder ==
    (call.fn = "currentRoute" /\ call.returned) =>
        LET static == {r \in MatchingRoutes : IsStaticPattern(r.path)}
            plain  == {r \in MatchingRoutes : ~HasCatchAllSegment(r.path)}
        IN  /\ static # {} => call.result \in static
            /\ (static = {} /\ plain # {}) => call.result \in plain

(* '/users/new' over '/users/:id' over a catch-all, listed in reverse. *)
C11_Witness ==
    /\ call.fn = "currentRoute" /\ call.returned
    /\ call.routes = << PageRoute(<<"/","*">>),
                        PageRoute(<<"/","a","/",":","x">>),
                        PageRoute(<<"/","a","/","b">>) >>
    /\ call.pathname = <<"/","a","/","b">>
    /\ call.result = PageRoute(<<"/","a","/","b">>)

(* C12: the root route '/' is selected only when the pathname is exactly   *)
(* '/': for '', '//' and every other pathname it is not the selected one.  *)
C12_RootOnlyForSlash ==
    (call.fn = "currentRoute" /\ call.returned /\ call.result = PageRoute(<<"/">>))
        => call.pathname = <<"/">>

(***************************************************************************)
(* matchRoute for a pattern and a pathname.  Both are written from their   *)
(* segments, which the call keeps next to the text handed to matchRoute; a *)
(* pathname may hold empty segments ('//', a trailing '/').                *)
(***************************************************************************)
MaxSegments == 2

PatternSegments == { <<"a">>, <<"a","b">>, <<":","x">>, <<":","y">>, <<"*">> }
PathSegments == { <<"a">>, <<"a","b">>, <<"A">>, <<>> }

SegmentLists(S, n) == UNION {[1..k -> S] : k \in 0..n}

TextOf(segments) == <<"/">> \o Join(segments, "/")

MatchPatterns ==
    {[segments |-> l, text |-> TextOf(l)] : l \in SegmentLists(PatternSegments, MaxSegments)}

MatchPathnames ==
    {[segments |-> l, text |-> TextOf(l)] : l \in SegmentLists(PathSegments, MaxSegments + 1)}
    \cup {[segments |-> <<>>, text |-> <<>>]}

InitMatch ==
    /\ AtRest
    /\ \E pattern \in MatchPatterns, pathname \in MatchPathnames :
          call = [fn |-> "matchRoute", pattern |-> pattern, pathname |-> pathname,
                  returned |-> FALSE, result |-> NoMatch]

ApplyMatchRoute ==
    /\ call.fn = "matchRoute"
    /\ ~call.returned
    /\ call' = [call EXCEPT !.returned = TRUE,
                            !.result = matchRoute(call.pattern.text, call.pathname.text)]
    /\ UNCHANGED <<routerVars, lifecycleVars, windowVars, updates, calls>>

NextMatch == ApplyMatchRoute

SpecMatch == InitMatch /\ [][NextMatch]_vars

(* The call's pattern segments and the non-empty segments of its pathname. *)
Returned(fn) == call.fn = fn /\ call.returned
PatternOfCall == call.pattern.segments
PathOfCall == SelectSeq(call.pathname.segments, LAMBDA seg : seg # <<>>)
IsDynamic(seg) == seg[1] = ":"
IsCatchAll(seg) == seg = <<"*">>
IsLiteral(seg) == ~IsDynamic(seg) /\ ~IsCatchAll(seg)
LiteralsAgree(pattern, path) ==
    \A i \in 1..Len(pattern) : IsLiteral(pattern[i]) => pattern[i] = path[i]

(* C13: for a pattern without dynamic and catch-all segments, matchRoute   *)
(* succeeds exactly when the non-empty segments of the pathname are the    *)
(* segments of the pattern (same length, order and case), and the params   *)
(* it returns are empty.                                                   *)
C13_StaticMatch ==
    (Returned("matchRoute") /\ \A i \in 1..Len(PatternOfCall) : IsLiteral(PatternOfCall[i]))
        => /\ call.result.match <=> (PathOfCall = PatternOfCall)
           /\ call.result.params = EmptyObject

(* '/a/ab' matches the pathname '/a//ab'. *)
C13_Witness ==
    /\ Returned("matchRoute")
    /\ PatternOfCall = << <<"a">>, <<"a","b">> >>
    /\ call.pathname.segments = << <<"a">>, <<>>, <<"a","b">> >>
    /\ call.result.match

(* C14 as stated: for a pattern of literal and dynamic segments, matchRoute *)
(* succeeds exactly when the pathname has as many segments as the pattern  *)
(* and every literal equals the path segment at its index; on success each *)
(* dynamic segment ':name' is bound to the path segment at its index.      *)
C14_DynamicMatch ==
    (Returned("matchRoute") /\ \A i \in 1..Len(PatternOfCall) : ~IsCatchAll(PatternOfCall[i]))
        => /\ call.result.match <=> /\ Len(PathOfCall) = Len(PatternOfCall)
                                     /\ LiteralsAgree(PatternOfCall, PathOfCall)
           /\ call.result.match =>
                 \A i \in 1..Len(PatternOfCall) :
                     IsDynamic(PatternOfCall[i]) =>
                         /\ Tail(PatternOfCall[i]) \in DOMAIN call.result.params
                         /\ call.result.params[Tail(PatternOfCall[i])] = PathOfCall[i]

(* C14 amended: the same, a dynamic segment being bound to the path        *)
(* segment at its index when no later dynamic segment repeats its name (a  *)
(* repeated name holds the segment of its last occurrence).                *)
C14_DynamicMatchLastBinding ==
    (Returned("matchRoute") /\ \A i \in 1..Len(PatternOfCall) : ~IsCatchAll(PatternOfCall[i]))
        => /\ call.result.match <=> /\ Len(PathOfCall) = Len(PatternOfCall)
                                     /\ LiteralsAgree(PatternOfCall, PathOfCall)
           /\ call.result.match =>
                 \A i \in 1..Len(PatternOfCall) :
                     (/\ IsDynamic(PatternOfCall[i])
                      /\ \A j \in (i+1)..Len(PatternOfCall) :
                            PatternOfCall[j] # PatternOfCall[i]) =>
                         /\ Tail(PatternOfCall[i]) \in DOMAIN call.result.params
                         /\ call.result.params[Tail(PatternOfCall[i])] = PathOfCall[i]

(* '/a/:x' with '/a/ab' gives {x: 'ab'}. *)
C14_Witness ==
    /\ Returned("matchRoute")
    /\ PatternOfCall = << <<"a">>, <<":","x">> >>
    /\ call.pathname.text = <<"/","a","/","a","b">>
    /\ call.result.match
    /\ call.result.params = SetKey(EmptyObject, <<"x">>, <<"a","b">>)

(* C15: for a pattern ending in '*', matchRoute succeeds exactly when the  *)
(* segments before '*' match the leading path segments, and binds slug to  *)
(* the remaining path segments joined by '/', the empty string when none   *)
(* remains.                                                                *)
C15_CatchAll ==
    LET n      == Len(PatternOfCall)
        before == SubSeq(PatternOfCall, 1, n - 1)
    IN  (/\ Returned("matchRoute")
         /\ n >= 1
         /\ IsCatchAll(PatternOfCall[n])
         /\ \A i \in 1..(n-1) : ~IsCatchAll(PatternOfCall[i]))
        => /\ call.result.match <=> /\ Len(PathOfCall) >= n - 1
                                     /\ LiteralsAgree(before, PathOfCall)
           /\ call.result.match =>
                 /\ <<"s","l","u","g">> \in DOMAIN call.result.params
                 /\ call.result.params[<<"s","l","u","g">>]
                      = Join(SubSeq(PathOfCall, n, Len(PathOfCall)), "/")

(* '/a/*' with '/a/ab/A' gives slug 'ab/A'. *)
C15_Witness ==
    /\ Returned("matchRoute")
    /\ PatternOfCall = << <<"a">>, <<"*">> >>
    /\ call.pathname.text = <<"/","a","/","a","b","/","A">>
    /\ call.result.match
    /\ call.result.params = SetKey(EmptyObject, <<"s","l","u","g">>, <<"a","b","/","A">>)

(* '/a/*' with '/a' gives slug ''. *)
C15_WitnessEmptyRemainder ==
    /\ Returned("matchRoute")
    /\ PatternOfCall = << <<"a">>, <<"*">> >>
    /\ call.pathname.text = <<"/","a">>
    /\ call.result.match
    /\ call.result.params = SetKey(EmptyObject, <<"s","l","u","g">>, <<>>)

(* C27: matchRoute is invariant under empty segments: for every pattern    *)
(* the result for a pathname is the result for the pathname written from   *)
(* its non-empty segments alone, so that two pathnames with the same       *)
(* non-empty segments ('/a//b', '/a/b', '/a/b/') give the same match and   *)
(* the same params.                                                        *)
C27_EmptySegmentsIgnored ==
    Returned("matchRoute") =>
        /\ call.result = matchRoute(call.pattern.text, TextOf(PathOfCall))
        /\ call.result = matchRoute(call.pattern.text, TextOf(PathOfCall) \o <<"/">>)

(* '/a/:x' with '/a//ab' gives {x: 'ab'}, as with '/a/ab'. *)
C27_Witness ==
    /\ Returned("matchRoute")
    /\ PatternOfCall = << <<"a">>, <<":","x">> >>
    /\ call.pathname.text = <<"/","a","/","/","a","b">>
    /\ call.result = matchRoute(<<"/","a","/",":","x">>, <<"/","a","/","a","b">>)
    /\ call.result.match

(***************************************************************************)
(* findNotFoundPage for a notFoundPages list and a pathname.  The list     *)
(* holds one page for a prefix, in any order.                              *)
(***************************************************************************)
NotFoundCandidates ==
    { [pathPrefix |-> <<>>, component |-> "Global"],
      [pathPrefix |-> <<"/","d">>, component |-> "DashPage"],
      [pathPrefix |-> <<"/","d","/","s">>, component |-> "SettingsPage"],
      [pathPrefix |-> <<"/","o">>, component |-> "OtherPage"] }

NotFoundLists == ListsOf(NotFoundCandidates, Cardinality(NotFoundCandidates))

NotFoundPathnames ==
    { <<"/">>,
      <<"/","d">>,
      <<"/","d","/","x">>,
      <<"/","d","x">>,
      <<"/","d","/","s">>,
      <<"/","d","/","s","/","x">>,
      <<"/","o","/","x">>,
      <<"/","x">> }

InitNotFound ==
    /\ AtRest
    /\ \E list \in NotFoundLists, pathname \in NotFoundPathnames :
          call = [fn |-> "findNotFoundPage", path |-> pathname, notFoundPages |-> list,
                  returned |-> FALSE, result |-> "null"]

ApplyFindNotFoundPage ==
    /\ call.fn = "findNotFoundPage"
    /\ ~call.returned
    /\ call' = [call EXCEPT !.returned = TRUE,
                            !.result = findNotFoundPage(call.path, call.notFoundPages)]
    /\ UNCHANGED <<routerVars, lifecycleVars, windowVars, updates, calls>>

NextNotFound == ApplyFindNotFoundPage

SpecNotFound == InitNotFound /\ [][NextNotFound]_vars

(* A candidate matches: its prefix is empty, or the pathname is the prefix *)
(* or starts with prefix + '/'.                                            *)
PrefixMatches(prefix, pathname) ==
    \/ prefix = <<>>
    \/ pathname = prefix
    \/ /\ Len(pathname) > Len(prefix)
       /\ SubSeq(pathname, 1, Len(prefix)) = prefix
       /\ pathname[Len(prefix) + 1] = "/"

Reordered(list) ==
    {l \in [1..Len(list) -> {list[i] : i \in 1..Len(list)}] :
        \A i, j \in 1..Len(list) : i # j => l[i] # l[j]}

(* C16: 404 resolution returns the page of the matching candidate with the *)
(* longest pathPrefix, whatever the order of the list, and nothing when no *)
(* candidate matches.                                                      *)
C16_LongestPrefix ==
    Returned("findNotFoundPage") =>
        LET list     == call.notFoundPages
            matching == {i \in 1..Len(list) : PrefixMatches(list[i].pathPrefix, call.path)}
        IN  /\ matching = {} => call.result = "null"
            /\ matching # {} =>
                  \E i \in matching :
                      /\ call.result = list[i].component
                      /\ \A j \in matching :
                            Len(list[j].pathPrefix) <= Len(list[i].pathPrefix)
            /\ \A other \in Reordered(list) :
                  findNotFoundPage(call.path, other) = call.result

(* [{'': Global}, {'/d': DashPage}] resolves '/d/x' to DashPage. *)
C16_Witness ==
    /\ Returned("findNotFoundPage")
    /\ call.notFoundPages = << [pathPrefix |-> <<>>, component |-> "Global"],
                               [pathPrefix |-> <<"/","d">>, component |-> "DashPage"] >>
    /\ call.path = <<"/","d","/","x">>
    /\ call.result = "DashPage"

(***************************************************************************)
(* renderContent for a layouts prop, a pathname and the content (the page  *)
(* of the matched route, or the 404 content).                              *)
(***************************************************************************)
LayoutCandidates ==
    { [path |-> <<"/">>, layout |-> "RootLayout"],
      [path |-> <<"/","d">>, layout |-> "DashboardLayout"],
      [path |-> <<"/","d","/","s">>, layout |-> "SettingsLayout"],
      [path |-> <<"/","o">>, layout |-> "OtherLayout"] }

LayoutLists == ListsOf(LayoutCandidates, Cardinality(LayoutCandidates))

LayoutPathnames ==
    { <<"/">>,
      <<"/","d">>,
      <<"/","d","x">>,
      <<"/","d","/","s">>,
      <<"/","d","/","s","/","x">>,
      <<"/","x">> }

Contents == { [kind |-> "page", component |-> "Page"], [kind |-> "notFound"] }

InitLayout ==
    /\ AtRest
    /\ \E list \in LayoutLists, pathname \in LayoutPathnames, content \in Contents :
          call = [fn |-> "renderContent", layouts |-> list, pathname |-> pathname,
                  content |-> content, returned |-> FALSE, chain |-> <<>>,
                  result |-> Null]

ApplyRenderContent ==
    /\ call.fn = "renderContent"
    /\ ~call.returned
    /\ call' = [call EXCEPT !.returned = TRUE,
                            !.chain = MatchingLayoutsOf(call.layouts, call.pathname),
                            !.result = renderContent(call.content,
                                           MatchingLayoutsOf(call.layouts, call.pathname))]
    /\ UNCHANGED <<routerVars, lifecycleVars, windowVars, updates, calls>>

NextLayout == ApplyRenderContent

SpecLayout == InitLayout /\ [][NextLayout]_vars

(* L1(L2(...Ln(content)...)) for the chain L1..Ln. *)
RECURSIVE Nested(_, _)
Nested(chain, content) ==
    IF chain = <<>> THEN content
    ELSE [kind |-> "layout", layout |-> Head(chain).layout,
          outlet |-> Nested(Tail(chain), content)]

(* C17: for the matched layout chain L1..Ln, ordered from the least to the *)
(* most specific, the composed tree is L1(L2(...Ln(content)...)): the      *)
(* least specific layout is the root and the content the innermost node.   *)
C17_LayoutNesting ==
    Returned("renderContent") =>
        LET chain == MatchingLayoutsOf(call.layouts, call.pathname)
        IN  /\ \A i, j \in 1..Len(chain) :
                  i < j => Len(chain[i].path) < Len(chain[j].path)
            /\ call.result = Nested(chain, call.content)

(* Layouts '/d' and '/' with the page at '/d/s' give Root(Dashboard(Page)). *)
C17_Witness ==
    /\ Returned("renderContent")
    /\ call.layouts = << [path |-> <<"/","d">>, layout |-> "DashboardLayout"],
                         [path |-> <<"/">>, layout |-> "RootLayout"] >>
    /\ call.pathname = <<"/","d","/","s">>
    /\ call.result =
          [kind |-> "layout", layout |-> "RootLayout",
           outlet |-> [kind |-> "layout", layout |-> "DashboardLayout",
                       outlet |-> [kind |-> "page", component |-> "Page"]]]

(* C28: the matched layout chain holds exactly the layouts whose scope     *)
(* path is '/', is the pathname, or is followed by '/' as a prefix of the  *)
(* pathname (scope '/dash' does not match '/dashboard'), in ascending      *)
(* order of scope-path length, whatever the order of the layouts list.     *)
C28_LayoutChain ==
    Returned("renderContent") =>
        LET Scoped(scope) ==
                \/ scope = <<"/">>
                \/ call.pathname = scope
                \/ /\ Len(call.pathname) > Len(scope)
                   /\ SubSeq(call.pathname, 1, Len(scope)) = scope
                   /\ call.pathname[Len(scope) + 1] = "/"
            scoped == {call.layouts[i] : i \in {j \in 1..Len(call.layouts) :
                                                   Scoped(call.layouts[j].path)}}
        IN  /\ {call.chain[i] : i \in 1..Len(call.chain)} = scoped
            /\ Len(call.chain) = Cardinality(scoped)
            /\ \A i, j \in 1..Len(call.chain) :
                  i < j => Len(call.chain[i].path) <= Len(call.chain[j].path)
            /\ \A other \in Reordered(call.layouts) :
                  MatchingLayoutsOf(other, call.pathname) = call.chain

(* Layouts '/d/s', '/d', '/' and the pathname '/dx': the chain is the root *)
(* layout alone.                                                           *)
C28_Witness ==
    /\ Returned("renderContent")
    /\ call.layouts = << [path |-> <<"/","d","/","s">>, layout |-> "SettingsLayout"],
                         [path |-> <<"/","d">>, layout |-> "DashboardLayout"],
                         [path |-> <<"/">>, layout |-> "RootLayout"] >>
    /\ call.pathname = <<"/","d","x">>
    /\ call.chain = << [path |-> <<"/">>, layout |-> "RootLayout"] >>

(***************************************************************************)
(* The codec: buildSearchString for a params object, then                  *)
(* parseSearchParams for the string it returned.                           *)
(***************************************************************************)
MaxList == 2

CodecKeys == { <<"q">>, <<"t","&">> }
ValueStrings == { <<>>, <<"1">>, <<"a"," ","b">>, <<"&","=","+","%">> }

NullValue == [isArray |-> FALSE, values |-> <<>>]
StringValue(v) == [isArray |-> FALSE, values |-> <<v>>]
ListValue(l) == [isArray |-> TRUE, values |-> l]

CodecValues ==
    {NullValue} \cup {StringValue(v) : v \in ValueStrings}
                \cup {ListValue(l) : l \in SegmentLists(ValueStrings, MaxList)}

Entry(key, value) == [key |-> key, isArray |-> value.isArray, values |-> value.values]

(* The objects with one value for each key of a list of distinct keys. *)
ObjectsOver(Keys, Values) ==
    UNION {{[i \in 1..Len(ks) |-> Entry(ks[i], vs[i])] : vs \in [1..Len(ks) -> Values]}
           : ks \in ListsOf(Keys, Cardinality(Keys))}

CodecParams == ObjectsOver(CodecKeys, CodecValues)

InitCodec ==
    /\ AtRest
    /\ \E params \in CodecParams :
          call = [fn |-> "buildSearchString", params |-> params, returned |-> FALSE,
                  search |-> <<>>, result |-> <<>>]

ApplyBuildSearchString ==
    /\ call.fn = "buildSearchString"
    /\ ~call.returned
    /\ call' = [call EXCEPT !.returned = TRUE,
                            !.search = buildSearchString(call.params)]
    /\ UNCHANGED <<routerVars, lifecycleVars, windowVars, updates, calls>>

ApplyParseSearchParams ==
    /\ call.fn = "buildSearchString"
    /\ call.returned
    /\ call' = [call EXCEPT !.fn = "parseSearchParams",
                            !.result = parseSearchParams(call.search)]
    /\ UNCHANGED <<routerVars, lifecycleVars, windowVars, updates, calls>>

NextCodec ==
    \/ ApplyBuildSearchString
    \/ ApplyParseSearchParams

SpecCodec == InitCodec /\ [][NextCodec]_vars

(* Every value is a string or a list of at least two strings. *)
RoundTrips(params) ==
    \A i \in 1..Len(params) :
        IF params[i].isArray THEN Len(params[i].values) >= 2
                             ELSE Len(params[i].values) = 1

(* C18: for every mapping whose values are strings or lists of at least    *)
(* two strings, parseSearchParams(buildSearchString(m)) is m, the order    *)
(* and the repetitions of a list included.                                 *)
C18_RoundTrip ==
    (Returned("parseSearchParams") /\ RoundTrips(call.params))
        => call.result = call.params

(* {q: 'a b', 't&': ['&=+%', '1']} through '?q=a+b&t%26=%26%3D%2B%25&t%26=1'. *)
C18_Witness ==
    /\ Returned("parseSearchParams")
    /\ call.params = << Entry(<<"q">>, StringValue(<<"a"," ","b">>)),
                        Entry(<<"t","&">>, ListValue(<< <<"&","=","+","%">>, <<"1">> >>)) >>
    /\ call.search = <<"?","q","=","a","+","b","&",
                       "t","%","2","6","=","%","2","6","%","3","D","%","2","B","%","2","5","&",
                       "t","%","2","6","=","1">>
    /\ call.result = call.params

(***************************************************************************)
(* The navigation controller: navigate, push, replace, setSearchParams and *)
(* the popstate listener of OlovaRouter, with window.history.  A handler   *)
(* reads the rendered currentPath and searchParams and leaves what it sets *)
(* in updates; Render makes it the state.  RouteWithLoader is left aside.  *)
(***************************************************************************)
MaxCalls == 2

(* window.location.pathname and .search of a URL of the session history.   *)
(* The URLs of the model are absolute paths, which pushState and           *)
(* replaceState record as they are.                                        *)
PathnameOfUrl(url) == Split(url, "?")[1]

SearchOfUrl(url) ==
    IF ~Includes(url, "?") THEN <<>>
    ELSE LET rest == SubSeq(url, FirstIndex(url, "?"), Len(url))
         IN  IF Len(rest) = 1 THEN <<>> ELSE rest

pushState(url) ==
    /\ windowHistory' = SubSeq(windowHistory, 1, windowIndex) \o <<url>>
    /\ windowIndex' = windowIndex + 1

replaceState(url) ==
    /\ windowHistory' = [windowHistory EXCEPT ![windowIndex] = url]
    /\ windowIndex' = windowIndex

LocationUrl == windowHistory[windowIndex]

(* One more handler call or popstate event, within the bound. *)
Called ==
    /\ calls < MaxCalls
    /\ calls' = calls + 1

(* setCurrentPath(path.split('?')[0]) and setSearchParamsState(...). *)
SetLocation(path) ==
    updates' = [currentPath  |-> Update(Split(path, "?")[1]),
                searchParams |-> Update(parseSearchParams(
                                     IF Includes(path, "?")
                                     THEN Split(path, "?")[2] ELSE <<>>))]

navigateLocation(path) ==
    /\ Called
    /\ pushState(path)
    /\ SetLocation(path)
    /\ UNCHANGED <<routerVars, lifecycleVars, call>>

(* push as it would be with replaceState. *)
pushOverwriting(path) ==
    /\ Called
    /\ replaceState(path)
    /\ SetLocation(path)
    /\ UNCHANGED <<routerVars, lifecycleVars, call>>

push(path) ==
    /\ Called
    /\ pushState(path)
    /\ SetLocation(path)
    /\ UNCHANGED <<routerVars, lifecycleVars, call>>

replace(path) ==
    /\ Called
    /\ replaceState(path)
    /\ SetLocation(path)
    /\ UNCHANGED <<routerVars, lifecycleVars, call>>

(* { ...searchParams, ...newParams }: a key keeps its place, new keys come *)
(* last; then the keys whose value is null are deleted.                    *)
Spread(a, b) ==
    LET Patched(e) ==
            IF \E j \in 1..Len(b) : b[j].key = e.key
            THEN b[CHOOSE j \in 1..Len(b) : b[j].key = e.key] ELSE e
    IN  [i \in 1..Len(a) |-> Patched(a[i])]
        \o SelectSeq(b, LAMBDA e : \A i \in 1..Len(a) : a[i].key # e.key)

DeleteNulls(params) == SelectSeq(params, LAMBDA e : ~IsNullValue(e))

(* setSearchParams as it would be if merge were ignored. *)
setSearchParamsWithoutMerge(newParams, options) ==
    LET searchString == buildSearchString(newParams)
        newUrl       == currentPath \o searchString
    IN  /\ Called
        /\ IF options.replace THEN replaceState(newUrl) ELSE pushState(newUrl)
        /\ updates' = [updates EXCEPT
                           !.searchParams = Update(parseSearchParams(searchString))]
        /\ UNCHANGED <<routerVars, lifecycleVars, call>>

(* setSearchParams as it would be if it always merged. *)
setSearchParamsAlwaysMerging(newParams, options) ==
    LET finalParams  == DeleteNulls(Spread(searchParams, newParams))
        searchString == buildSearchString(finalParams)
        newUrl       == currentPath \o searchString
    IN  /\ Called
        /\ IF options.replace THEN replaceState(newUrl) ELSE pushState(newUrl)
        /\ updates' = [updates EXCEPT
                           !.searchParams = Update(parseSearchParams(searchString))]
        /\ UNCHANGED <<routerVars, lifecycleVars, call>>

setSearchParams(newParams, options) ==
    LET finalParams  == IF options.merge
                        THEN DeleteNulls(Spread(searchParams, newParams))
                        ELSE newParams
        searchString == buildSearchString(finalParams)
        newUrl       == currentPath \o searchString
    IN  /\ Called
        /\ IF options.replace THEN replaceState(newUrl) ELSE pushState(newUrl)
        /\ updates' = [updates EXCEPT
                           !.searchParams = Update(parseSearchParams(searchString))]
        /\ UNCHANGED <<routerVars, lifecycleVars, call>>

(* The user goes back or forward (delta -1 or 1); the browser makes the    *)
(* entry current and fires popstate.  The event comes after the render of  *)
(* the handler before it.                                                  *)
onPopState(delta) ==
    /\ Called
    /\ updates = NoUpdates
    /\ windowIndex + delta \in 1..Len(windowHistory)
    /\ windowIndex' = windowIndex + delta
    /\ UNCHANGED windowHistory
    /\ updates' = [currentPath  |-> Update(PathnameOfUrl(windowHistory[windowIndex'])),
                   searchParams |-> Update(parseSearchParams(
                                        SearchOfUrl(windowHistory[windowIndex'])))]
    /\ UNCHANGED <<routerVars, lifecycleVars, call>>

(* What a render of OlovaRouter shows: the value of RouterContext          *)
(* (currentPath, params, searchParams), the component matched and the      *)
(* layouts around it.                                                      *)
RouterFrame(path, sp) ==
    [fn |-> "render", currentPath |-> path, searchParams |-> sp,
     params |-> Matched(path).params, component |-> Matched(path).component,
     layouts |-> matchingLayouts(path)]

(* React renders OlovaRouter with the state the handlers set: the updates  *)
(* of one handler are rendered together (createRoot batches them).         *)
Render ==
    /\ updates # NoUpdates
    /\ currentPath' = IF updates.currentPath.set
                      THEN updates.currentPath.value ELSE currentPath
    /\ searchParams' = IF updates.searchParams.set
                       THEN updates.searchParams.value ELSE searchParams
    /\ updates' = NoUpdates
    /\ call' = RouterFrame(currentPath', searchParams')
    /\ UNCHANGED <<lifecycleVars, windowVars, calls>>

(* The strings navigate, push and replace are called with, written from    *)
(* the pathname and the query they hold; params is the object the query    *)
(* stands for.                                                             *)
NavInput(pathname, query, params) ==
    [pathname |-> pathname, params |-> params,
     text |-> IF query = <<>> THEN pathname ELSE pathname \o <<"?">> \o query]

NavInputs ==
    { NavInput(<<"/","u","/","1">>, <<>>, <<>>),
      NavInput(<<"/","a">>, <<"q","=","1">>,
               << Entry(<<"q">>, StringValue(<<"1">>)) >>),
      NavInput(<<"/","b">>, <<"q","=","1","&","q","=","2","&","t","=","x","+","y">>,
               << Entry(<<"q">>, ListValue(<< <<"1">>, <<"2">> >>)),
                  Entry(<<"t">>, StringValue(<<"x"," ","y">>)) >>) }

InitialUrls == { <<"/">>, <<"/","a","?","q","=","1">> }

(* The patches setSearchParams is called with, and its options. *)
Patches ==
    { << Entry(<<"q">>, NullValue) >>,
      << Entry(<<"q">>, StringValue(<<"2">>)) >>,
      << Entry(<<"t">>, ListValue(<< <<"x">>, <<"y">> >>)) >>,
      << Entry(<<"t">>, ListValue(<< <<"x">> >>)) >>,
      << Entry(<<"t">>, ListValue(<<>>)) >>,
      << Entry(<<"q">>, NullValue), Entry(<<"t">>, StringValue(<<"x"," ","y">>)) >> }

Options == [replace : BOOLEAN, merge : BOOLEAN]

InitNav ==
    /\ \E url \in InitialUrls :
          /\ windowHistory = <<url>>
          /\ windowIndex = 1
          /\ currentPath = PathnameOfUrl(url)
          /\ searchParams = parseSearchParams(SearchOfUrl(url))
    /\ updates = NoUpdates
    /\ calls = 0
    /\ mounted = FALSE
    /\ effectPending = FALSE
    /\ isLoading = FALSE
    /\ InitialCells
    /\ runs = {}
    /\ submits = {}
    /\ nextRun = 1
    /\ nextSubmit = 1
    /\ call = RouterFrame(currentPath, searchParams)

NextNav ==
    \/ \E input \in NavInputs : navigateLocation(input.text)
    \/ \E input \in NavInputs : push(input.text)
    \/ \E input \in NavInputs : replace(input.text)
    \/ \E patch \in Patches, options \in Options : setSearchParams(patch, options)
    \/ \E delta \in {-1, 1} : onPopState(delta)
    \/ Render

SpecNav == InitNav /\ [][NextNav]_vars

(* The Location the router has after the calls made so far: what the last  *)
(* call set, rendered or not.                                              *)
LatestPath ==
    IF updates.currentPath.set THEN updates.currentPath.value ELSE currentPath
LatestSearch ==
    IF updates.searchParams.set THEN updates.searchParams.value ELSE searchParams

KeysOf(params) == {params[i].key : i \in 1..Len(params)}
ValueOf(params, key) ==
    LET e == params[CHOOSE i \in 1..Len(params) : params[i].key = key]
    IN  [isArray |-> e.isArray, values |-> e.values]

(* result is current overridden by patch, minus the keys patched to null. *)
Overridden(current, patch, result) ==
    LET nulls == {k \in KeysOf(patch) : ValueOf(patch, k) = NullValue}
        keys  == (KeysOf(current) \cup KeysOf(patch)) \ nulls
    IN  /\ KeysOf(result) = keys
        /\ Len(result) = Cardinality(keys)
        /\ \A k \in keys :
              ValueOf(result, k) = IF k \in KeysOf(patch) THEN ValueOf(patch, k)
                                                          ELSE ValueOf(current, k)

(* The same, a patched value being what the codec reads back: no key for   *)
(* an empty list, the element as a string for a list of one.               *)
ReadBack(value) ==
    IF value.isArray /\ Len(value.values) = 1 THEN StringValue(value.values[1])
    ELSE value

OverriddenAsReadBack(current, patch, result) ==
    LET gone == {k \in KeysOf(patch) : ValueOf(patch, k) \in {NullValue, ListValue(<<>>)}}
        keys == (KeysOf(current) \cup KeysOf(patch)) \ gone
    IN  /\ KeysOf(result) = keys
        /\ Len(result) = Cardinality(keys)
        /\ \A k \in keys :
              ValueOf(result, k) = IF k \in KeysOf(patch) THEN ReadBack(ValueOf(patch, k))
                                                          ELSE ValueOf(current, k)

(* C19 as stated: setSearchParams(patch, {merge: true}) produces the       *)
(* current search params overridden by the patch, minus the keys patched   *)
(* to null; a key not named in the patch keeps its value.                  *)
C19_MergeOverrides ==
    [][\A patch \in Patches, r \in BOOLEAN :
          setSearchParams(patch, [replace |-> r, merge |-> TRUE])
              => Overridden(searchParams, patch, LatestSearch')]_vars

(* C19 amended: setSearchParams(patch, {merge: true}) produces the current *)
(* search params overridden by the patch as the codec reads it back: a key *)
(* patched to null or to an empty list is removed, a key patched to a list *)
(* of one string holds that string, and a key not named in the patch keeps *)
(* its value.                                                              *)
C19_MergeOverridesAsReadBack ==
    [][\A patch \in Patches, r \in BOOLEAN :
          setSearchParams(patch, [replace |-> r, merge |-> TRUE])
              => OverriddenAsReadBack(searchParams, patch, LatestSearch')]_vars

(* On '/b?q=1&q=2&t=x+y', {q: null} merged leaves {t: 'x y'}. *)
C19_Witness ==
    /\ currentPath = <<"/","b">>
    /\ searchParams = << Entry(<<"q">>, ListValue(<< <<"1">>, <<"2">> >>)),
                         Entry(<<"t">>, StringValue(<<"x"," ","y">>)) >>
    /\ updates.searchParams = Update(<< Entry(<<"t">>, StringValue(<<"x"," ","y">>)) >>)
    /\ LocationUrl = <<"/","b","?","t","=","x","+","y">>

(* What push and replace do to window.history. *)
EntryRecorded(url) ==
    /\ windowIndex' = windowIndex + 1
    /\ Len(windowHistory') = windowIndex + 1
    /\ windowHistory'[windowIndex'] = url
    /\ \A i \in 1..windowIndex : windowHistory'[i] = windowHistory[i]

EntryOverwritten(url) ==
    /\ windowIndex' = windowIndex
    /\ Len(windowHistory') = Len(windowHistory)
    /\ windowHistory'[windowIndex] = url
    /\ \A i \in 1..Len(windowHistory) :
          i # windowIndex => windowHistory'[i] = windowHistory[i]

LocationFrom(input) ==
    /\ LatestPath' = input.pathname
    /\ LatestSearch' = input.params

(* C20: navigate and push record exactly one new history entry, replace    *)
(* records none and overwrites the current entry, and all three set the    *)
(* pathname and the search params from the string they are called with:    *)
(* the Location after push(p) is the Location after replace(p).            *)
C20_PushAndReplace ==
    [][\A input \in NavInputs :
          /\ (navigateLocation(input.text) \/ push(input.text))
                => EntryRecorded(input.text) /\ LocationFrom(input)
          /\ replace(input.text)
                => EntryOverwritten(input.text) /\ LocationFrom(input)]_vars

(* replace('/b?q=1&q=2&t=x+y'), then push of the same string. *)
C20_Witness ==
    /\ windowHistory = << <<"/","b","?","q","=","1","&","q","=","2","&","t","=","x","+","y">>,
                          <<"/","b","?","q","=","1","&","q","=","2","&","t","=","x","+","y">> >>
    /\ windowIndex = 2
    /\ LatestPath = <<"/","b">>
    /\ LatestSearch = << Entry(<<"q">>, ListValue(<< <<"1">>, <<"2">> >>)),
                         Entry(<<"t">>, StringValue(<<"x"," ","y">>)) >>

(***************************************************************************)
(* The hooks.  A hook reads the nearest provider of its context: scope     *)
(* holds, for RouterContext, LoaderDataContext and ActionDataContext, the  *)
(* value provided where the hook is called, Null where no provider is      *)
(* above the caller (createContext(null)).  A hook throws or returns.      *)
(***************************************************************************)
Throw(message) == [threw |-> TRUE, value |-> message]
Return(value) == [threw |-> FALSE, value |-> value]

useRouter(scope) ==
    IF scope.router = Null
    THEN Throw("useRouter must be used within OlovaRouter")
    ELSE Return(scope.router)

useParams(scope) ==
    IF scope.router = Null THEN Return(EmptyObject) ELSE Return(scope.router.params)

useSearchParams(scope) ==
    IF scope.router = Null
    THEN Throw("useSearchParams must be used within OlovaRouter")
    ELSE Return(<<scope.router.searchParams, scope.router.setSearchParams>>)

useLoaderData(scope) ==
    IF scope.loader = Null
    THEN Throw("useLoaderData must be used within a route with a loader")
    ELSE Return(scope.loader.data)

useActionData(scope) ==
    IF scope.action = Null THEN Return(Undefined) ELSE Return(scope.action.data)

useIsLoading(scope) ==
    IF scope.loader = Null THEN Return(FALSE) ELSE Return(scope.loader.isLoading)

useIsSubmitting(scope) ==
    IF scope.action = Null THEN Return(FALSE) ELSE Return(scope.action.isSubmitting)

usePending(scope) ==
    Return((IF scope.loader = Null THEN FALSE ELSE scope.loader.isLoading)
           \/ (IF scope.action = Null THEN FALSE ELSE scope.action.isSubmitting))

useLoaderError(scope) ==
    IF scope.loader = Null THEN Return(Null) ELSE Return(scope.loader.error)

useSubmit(scope) ==
    IF scope.action = Null THEN Return(Undefined) ELSE Return(scope.action.submit)

RouterHooks == {"useRouter", "useParams", "useSearchParams"}
LoaderHooks == {"useLoaderData", "useIsLoading", "useLoaderError"}
ActionHooks == {"useActionData", "useIsSubmitting", "useSubmit"}
Hooks == RouterHooks \cup LoaderHooks \cup ActionHooks \cup {"usePending"}

(* The values OlovaRouter and RouteWithLoader provide. *)
RouterContexts ==
    {[currentPath |-> input.pathname,
      params |-> matchRoute(<<"/",":","x">>, input.pathname).params,
      searchParams |-> input.params,
      setSearchParams |-> "setSearchParams"] : input \in NavInputs}

LoaderContexts ==
    { [data |-> Null, isLoading |-> TRUE, error |-> Null],
      [data |-> LoaderResult("props"), isLoading |-> FALSE, error |-> Null],
      [data |-> Null, isLoading |-> FALSE, error |-> LoaderFailure("props")] }

ActionContexts ==
    { [data |-> Undefined, isSubmitting |-> FALSE, error |-> Null, submit |-> "submitAction"],
      [data |-> Undefined, isSubmitting |-> TRUE, error |-> Null, submit |-> "submitAction"],
      [data |-> ActionResult("props"), isSubmitting |-> FALSE, error |-> Null,
       submit |-> "submitAction"] }

(* Outside OlovaRouter; inside it, at a route without loader (or in a      *)
(* layout); inside RouteWithLoader, which provides both loader contexts.  *)
Scopes ==
    {[router |-> Null, loader |-> Null, action |-> Null]}
    \cup {[router |-> r, loader |-> Null, action |-> Null] : r \in RouterContexts}
    \cup {[router |-> r, loader |-> l, action |-> a] :
             r \in RouterContexts, l \in LoaderContexts, a \in ActionContexts}

InitHooks ==
    /\ AtRest
    /\ \E hook \in Hooks, scope \in Scopes :
          call = [fn |-> "hook", hook |-> hook, scope |-> scope,
                  returned |-> FALSE, result |-> Return(Undefined)]

ApplyHook ==
    /\ call.fn = "hook"
    /\ ~call.returned
    /\ call' = [call EXCEPT
                   !.returned = TRUE,
                   !.result = CASE call.hook = "useRouter" -> useRouter(call.scope)
                                [] call.hook = "useParams" -> useParams(call.scope)
                                [] call.hook = "useSearchParams" -> useSearchParams(call.scope)
                                [] call.hook = "useLoaderData" -> useLoaderData(call.scope)
                                [] call.hook = "useActionData" -> useActionData(call.scope)
                                [] call.hook = "useIsLoading" -> useIsLoading(call.scope)
                                [] call.hook = "useIsSubmitting" -> useIsSubmitting(call.scope)
                                [] call.hook = "usePending" -> usePending(call.scope)
                                [] call.hook = "useLoaderError" -> useLoaderError(call.scope)
                                [] call.hook = "useSubmit" -> useSubmit(call.scope)]
    /\ UNCHANGED <<routerVars, lifecycleVars, windowVars, updates, calls>>

NextHooks == ApplyHook

SpecHooks == InitHooks /\ [][NextHooks]_vars

(* The hook is called where the context it reads has no provider. *)
OutsideScope(hook, scope) ==
    \/ hook \in RouterHooks /\ scope.router = Null
    \/ hook \in LoaderHooks /\ scope.loader = Null
    \/ hook \in ActionHooks /\ scope.action = Null
    \/ hook = "usePending" /\ (scope.loader = Null \/ scope.action = Null)

(* C21: every hook that reads router, loader or action context throws when *)
(* it is called outside an active router/route scope; none returns a       *)
(* default value.                                                          *)
C21_HooksThrowOutsideScope ==
    (Returned("hook") /\ OutsideScope(call.hook, call.scope)) => call.result.threw

(***************************************************************************)
(* A render of OlovaRouter for its props and a pathname: sortedRoutes,     *)
(* currentRoute, matchingLayouts, the match loop, the lazy component, 404  *)
(* resolution and renderContent.  A route has a component or, when its     *)
(* page is imported lazily, a loader and no component ("null").  The       *)
(* router renders again without a change of its props or its Location     *)
(* (a render of its parent); renders holds what each render resolved.      *)
(***************************************************************************)
MaxRenders == 2

EagerRoute(pattern, component, routeDefinition) ==
    [path |-> pattern, component |-> component, routeDefinition |-> routeDefinition,
     loader |-> FALSE]

LazyRoute(pattern) ==
    [path |-> pattern, component |-> "null", routeDefinition |-> NoRouteDefinition,
     loader |-> TRUE]

ResolveRoutes ==
    { EagerRoute(<<"/">>, "Home", NoRouteDefinition),
      LazyRoute(<<"/","d">>),
      EagerRoute(<<"/","d","/","n">>, "New", NoRouteDefinition),
      EagerRoute(<<"/","d","/",":","x">>, "Item",
                 clientOnly(TRUE, FALSE, FALSE, FALSE, FALSE)),
      EagerRoute(<<"/","*">>, "CatchAll", NoRouteDefinition),
      EagerRoute(<<"/",":","x","/","*">>, "Section", NoRouteDefinition) }

ResolveTables == ListsOf(ResolveRoutes, MaxRoutes)

(* The layouts and notFoundPages props that come with a table. *)
ResolveSites ==
    { [layouts |-> <<>>, notFoundPages |-> <<>>],
      [layouts |-> << [path |-> <<"/","d">>, layout |-> "DashboardLayout"],
                      [path |-> <<"/">>, layout |-> "RootLayout"] >>,
       notFoundPages |-> <<>>],
      [layouts |-> << [path |-> <<"/","d">>, layout |-> "DashboardLayout"] >>,
       notFoundPages |-> << [pathPrefix |-> <<"/","d">>, component |-> "DashPage"] >>],
      [layouts |-> << [path |-> <<"/">>, layout |-> "RootLayout"],
                      [path |-> <<"/","d">>, layout |-> "DashboardLayout"] >>,
       notFoundPages |-> << [pathPrefix |-> <<>>, component |-> "Global"],
                            [pathPrefix |-> <<"/","d">>, component |-> "DashPage"] >>] }

ResolvePathnames ==
    { <<"/">>,
      <<"/","d">>,
      <<"/","d","/","n">>,
      <<"/","d","/","7">>,
      <<"/","d","x">>,
      <<"/","x","/","y">> }

(* Resolution as it would be if the match loop kept its place across       *)
(* renders and went on behind the routes tried by the render before.       *)
ResolutionResumingLoop(table, ls, nfs, path) ==
    LET sorted == SortRoutes(table)
        rest   == IF call.renders = <<>> \/ sorted = <<>> THEN sorted ELSE Tail(sorted)
        m      == MatchLoop(rest, path)
        chain  == MatchingLayoutsOf(ls, path)
    IN  [sortedRoutes     |-> sorted,
         currentRoute     |-> currentRoute(rest, path),
         MatchedComponent |-> m.component,
         params           |-> m.params,
         matchingLayouts  |-> chain,
         consulted        |-> FALSE,
         content          |-> [kind |-> "page", component |-> m.component],
         tree             |-> renderContent([kind |-> "page", component |-> m.component],
                                            chain)]

(* Resolution as it would be if the 404 content were returned as it is,    *)
(* outside the layouts.                                                    *)
ResolutionBare404(table, ls, nfs, path) ==
    LET sorted    == SortRoutes(table)
        route     == currentRoute(sorted, path)
        m         == MatchLoop(sorted, path)
        chain     == MatchingLayoutsOf(ls, path)
        lazy      == IF route = [kind |-> "null"] THEN FALSE ELSE route.loader
        consulted == m.component = "null" /\ ~lazy
        found     == IF consulted THEN findNotFoundPage(path, nfs) ELSE "null"
        component == IF found # "null" THEN found ELSE m.component
        content   == IF lazy THEN [kind |-> "lazy", route |-> route.path]
                     ELSE IF component # "null" /\ m.routeDefinition.loader
                     THEN [kind |-> "routeWithLoader", component |-> component,
                           params |-> m.params]
                     ELSE IF component # "null"
                     THEN [kind |-> "page", component |-> component]
                     ELSE [kind |-> "notFound"]
    IN  [sortedRoutes     |-> sorted,
         currentRoute     |-> route,
         MatchedComponent |-> m.component,
         params           |-> m.params,
         matchingLayouts  |-> chain,
         consulted        |-> consulted,
         content          |-> content,
         tree             |-> IF consulted THEN content ELSE renderContent(content, chain)]

Resolution(table, ls, nfs, path) ==
    LET sorted    == SortRoutes(table)
        route     == currentRoute(sorted, path)
        m         == MatchLoop(sorted, path)
        chain     == MatchingLayoutsOf(ls, path)
        lazy      == IF route = [kind |-> "null"] THEN FALSE ELSE route.loader
        consulted == m.component = "null" /\ ~lazy
        found     == IF consulted THEN findNotFoundPage(path, nfs) ELSE "null"
        component == IF found # "null" THEN found ELSE m.component
        content   == IF lazy THEN [kind |-> "lazy", route |-> route.path]
                     ELSE IF component # "null" /\ m.routeDefinition.loader
                     THEN [kind |-> "routeWithLoader", component |-> component,
                           params |-> m.params]
                     ELSE IF component # "null"
                     THEN [kind |-> "page", component |-> component]
                     ELSE [kind |-> "notFound"]
    IN  [sortedRoutes     |-> sorted,
         currentRoute     |-> route,
         MatchedComponent |-> m.component,
         params           |-> m.params,
         matchingLayouts  |-> chain,
         consulted        |-> consulted,
         content          |-> content,
         tree             |-> renderContent(content, chain)]

InitResolve ==
    /\ AtRest
    /\ \E table \in ResolveTables, site \in ResolveSites, pathname \in ResolvePathnames :
          call = [fn |-> "render", routes |-> table, layouts |-> site.layouts,
                  notFoundPages |-> site.notFoundPages, pathname |-> pathname,
                  renders |-> <<>>]

RenderOlovaRouter ==
    /\ call.fn = "render"
    /\ Len(call.renders) < MaxRenders
    /\ call' = [call EXCEPT
                   !.renders = Append(call.renders,
                                      Resolution(call.routes, call.layouts,
                                                 call.notFoundPages, call.pathname))]
    /\ UNCHANGED <<routerVars, lifecycleVars, windowVars, updates, calls>>

NextResolve == RenderOlovaRouter

SpecResolve == InitResolve /\ [][NextResolve]_vars

Rendered == call.fn = "render" /\ call.renders # <<>>
LastRender == call.renders[Len(call.renders)]

InitReload ==
    /\ \E url \in ReloadTargets :
          /\ windowHistory = <<url>>
          /\ windowIndex = 1
          /\ currentPath = PathnameOfUrl(url)
          /\ searchParams = parseSearchParams(SearchOfUrl(url))
    /\ mounted = RendersRouteWithLoader(currentPath)
    /\ effectPending = mounted
    /\ isLoading = mounted
    /\ InitialCells
    /\ runs = {}
    /\ submits = {}
    /\ nextRun = 1
    /\ nextSubmit = 1
    /\ updates = NoUpdates
    /\ calls = 0
    /\ call = NoCall

navigateAndRender(path) ==
    /\ Called
    /\ pushState(path)
    /\ LocationRendered(Split(path, "?")[1],
                        parseSearchParams(IF Includes(path, "?")
                                          THEN Split(path, "?")[2] ELSE <<>>))
    /\ UNCHANGED <<updates, call>>

(* The popstate listener as it would be if it set the pathname alone. *)
onPopStateKeepingSearch(delta) ==
    /\ Called
    /\ windowIndex + delta \in 1..Len(windowHistory)
    /\ windowIndex' = windowIndex + delta
    /\ UNCHANGED windowHistory
    /\ LocationRendered(PathnameOfUrl(windowHistory[windowIndex']), searchParams)
    /\ UNCHANGED <<updates, call>>

onPopStateAndRender(delta) ==
    /\ Called
    /\ windowIndex + delta \in 1..Len(windowHistory)
    /\ windowIndex' = windowIndex + delta
    /\ UNCHANGED windowHistory
    /\ LocationRendered(PathnameOfUrl(windowHistory[windowIndex']),
                        parseSearchParams(SearchOfUrl(windowHistory[windowIndex'])))
    /\ UNCHANGED <<updates, call>>

NextReload ==
    \/ \E path \in ReloadTargets : navigateAndRender(path)
    \/ \E delta \in {-1, 1} : onPopStateAndRender(delta)
    \/ RunEffect
    \/ \E r \in runs : GuardAllows(r)
    \/ \E r \in runs : GuardDenies(r)
    \/ \E r \in runs : GuardThrows(r)
    \/ \E r \in runs : LoaderResolves(r)
    \/ \E r \in runs : LoaderRejects(r)

SpecReload == InitReload /\ [][NextReload]_vars

(* The step changes the Location so that the matched route, its params or  *)
(* the search params differ, and the route matched now has a loader.       *)
MatchAltered ==
    /\ <<currentPath, searchParams>>' # <<currentPath, searchParams>>
    /\ CurrentProps' # CurrentProps
    /\ RendersRouteWithLoader(currentPath')

(* C23: a change of the Location that alters the matched route, its params *)
(* or the search params, the route matched now having a loader, is         *)
(* followed by the effect of the new render, and that effect sets          *)
(* isLoading and starts the loading transition (the guard when there is    *)
(* one, else the loader) with the new params and search params; on         *)
(* navigate and on back/forward alike, and when the route left has a       *)
(* loader too.                                                             *)
C23_LocationChangeReloads ==
    [][/\ MatchAltered => (mounted' /\ effectPending')
       /\ effectPending =>
             /\ isLoading'
             /\ \E r \in runs' :
                   /\ Started(r)
                   /\ r.origin = "effect"
                   /\ r.props = CurrentProps
                   /\ r.phase = IF CurrentProps.routeDefinition.beforeEnter
                                THEN "beforeEnter" ELSE "loader"]_vars

(* '/a' loaded, navigate('/g') loaded, then back: '/a' is loading again    *)
(* while it still holds the data loaded before.                            *)
C23_Witness ==
    /\ windowHistory = << <<"/","a">>, <<"/","g">> >>
    /\ windowIndex = 1
    /\ currentPath = <<"/","a">>
    /\ isLoading
    /\ loaderData # Null
    /\ \E r \in runs : r.props = CurrentProps /\ r.phase = "loader"

(* The tier of a pattern: 0 without dynamic and catch-all segment, 1 with  *)
(* a dynamic segment and no catch-all, 2 with a catch-all.                 *)
Tier(pattern) ==
    IF HasCatchAllSegment(pattern) THEN 2
    ELSE IF HasDynamicSegment(pattern) THEN 1
    ELSE 0

(* C26: the sorted route list holds the routes of the table ordered by     *)
(* tier and, within a tier, by descending length of the pattern string;    *)
(* selection returns the first route of that list that matches the         *)
(* pathname, with the params matching it extracts, and no route when none  *)
(* matches.                                                                *)
C26_SortedSelection ==
    Rendered =>
        LET sorted == LastRender.sortedRoutes
            hits   == {i \in 1..Len(sorted) : RouteMatches(sorted[i], call.pathname)}
        IN  /\ Len(sorted) = Len(call.routes)
            /\ {sorted[i] : i \in 1..Len(sorted)}
                  = {call.routes[i] : i \in 1..Len(call.routes)}
            /\ \A i, j \in 1..Len(sorted) :
                  i < j => \/ Tier(sorted[i].path) < Tier(sorted[j].path)
                           \/ /\ Tier(sorted[i].path) = Tier(sorted[j].path)
                              /\ Len(sorted[i].path) >= Len(sorted[j].path)
            /\ IF hits = {}
               THEN /\ LastRender.currentRoute = [kind |-> "null"]
                    /\ LastRender.MatchedComponent = "null"
               ELSE LET first == CHOOSE i \in hits : \A j \in hits : i <= j
                    IN  /\ LastRender.currentRoute = sorted[first]
                        /\ LastRender.MatchedComponent = sorted[first].component
                        /\ LastRender.params
                              = matchRoute(sorted[first].path, call.pathname).params

(* C29: 404 resolution is consulted only when no route of the table        *)
(* matches the pathname; the content is then the page of the 404 candidate *)
(* found, or the default notFound content when none matches, and it is     *)
(* wrapped in the layout chain a page at that pathname is wrapped in.      *)
C29_NotFoundInLayouts ==
    Rendered =>
        LET noRoute   == \A i \in 1..Len(call.routes) :
                             ~RouteMatches(call.routes[i], call.pathname)
            found     == findNotFoundPage(call.pathname, call.notFoundPages)
            pageChain == Resolution(<< EagerRoute(<<"/","*">>, "Page", NoRouteDefinition) >>,
                                    call.layouts, call.notFoundPages,
                                    call.pathname).matchingLayouts
        IN  /\ LastRender.consulted => noRoute
            /\ noRoute =>
                  /\ LastRender.consulted
                  /\ LastRender.content = IF found = "null" THEN [kind |-> "notFound"]
                                          ELSE [kind |-> "page", component |-> found]
                  /\ LastRender.tree = Nested(pageChain, LastRender.content)

(* The table ['/'] with layouts '/', '/d' and 404 pages '' and '/d': the   *)
(* pathname '/d/7' renders RootLayout(DashboardLayout(DashPage)).          *)
C29_Witness ==
    /\ Rendered
    /\ call.routes = << EagerRoute(<<"/">>, "Home", NoRouteDefinition) >>
    /\ call.pathname = <<"/","d","/","7">>
    /\ LastRender.consulted
    /\ LastRender.tree =
          [kind |-> "layout", layout |-> "RootLayout",
           outlet |-> [kind |-> "layout", layout |-> "DashboardLayout",
                       outlet |-> [kind |-> "page", component |-> "DashPage"]]]

(* The same table without 404 pages: '/d/7' renders the default notFound   *)
(* content under both layouts.                                             *)
C29_WitnessDefault ==
    /\ Rendered
    /\ call.routes = << EagerRoute(<<"/">>, "Home", NoRouteDefinition) >>
    /\ call.pathname = <<"/","d","/","7">>
    /\ LastRender.consulted
    /\ LastRender.tree =
          [kind |-> "layout", layout |-> "RootLayout",
           outlet |-> [kind |-> "layout", layout |-> "DashboardLayout",
                       outlet |-> [kind |-> "notFound"]]]

(* The key=value pairs of a params object: nothing for null or undefined,  *)
(* one pair for a string, one pair for each element of a list, in order.   *)
RECURSIVE RepeatedPairs(_)
RepeatedPairs(params) ==
    IF params = <<>> THEN <<>>
    ELSE [i \in 1..Len(Head(params).values) |->
             <<Head(params).key, Head(params).values[i]>>]
         \o RepeatedPairs(Tail(params))

(* C30: buildSearchString writes no pair for a key whose value is null or  *)
(* undefined and one key=value pair for each element of a list, in list    *)
(* order; parseSearchParams of what it wrote for {k: [x]} holds k as the   *)
(* string x, and holds no key for an empty list.                           *)
C30_ListsAndNulls ==
    /\ (call.fn \in {"buildSearchString", "parseSearchParams"} /\ call.returned) =>
          /\ URLSearchParamsOf(call.search) = RepeatedPairs(call.params)
          /\ call.search = <<>> <=> RepeatedPairs(call.params) = <<>>
          /\ call.search # <<>> =>
                Len(Split(Tail(call.search), "&")) = Len(RepeatedPairs(call.params))
    /\ Returned("parseSearchParams") =>
          \A i \in 1..Len(call.params) :
              LET e == call.params[i]
              IN  /\ e.values = <<>> => e.key \notin KeysOf(call.result)
                  /\ Len(e.values) = 1 =>
                        /\ e.key \in KeysOf(call.result)
                        /\ ValueOf(call.result, e.key) = StringValue(e.values[1])
                  /\ Len(e.values) > 1 =>
                        /\ e.key \in KeysOf(call.result)
                        /\ ValueOf(call.result, e.key) = ListValue(e.values)

(* {q: ['1'], 't&': []} is written '?q=1' and read {q: '1'}. *)
C30_Witness ==
    /\ Returned("parseSearchParams")
    /\ call.params = << Entry(<<"q">>, ListValue(<< <<"1">> >>)),
                        Entry(<<"t","&">>, ListValue(<<>>)) >>
    /\ call.search = <<"?","q","=","1">>
    /\ call.result = << Entry(<<"q">>, StringValue(<<"1">>)) >>

(* {q: null, 't&': ['a b', '1']} is written '?t%26=a+b&t%26=1'. *)
C30_WitnessNullAndList ==
    /\ call.fn = "buildSearchString" /\ call.returned
    /\ call.params = << Entry(<<"q">>, NullValue),
                        Entry(<<"t","&">>, ListValue(<< <<"a"," ","b">>, <<"1">> >>)) >>
    /\ call.search = <<"?","t","%","2","6","=","a","+","b","&","t","%","2","6","=","1">>

(***************************************************************************)
(* setSearchParams without merge, in SpecNav.                              *)
(***************************************************************************)
(* The entry setSearchParams leaves current: its pathname is the           *)
(* currentPath the handler reads and its query decodes to result.          *)
EntryHolds(result) ==
    /\ PathnameOfUrl(LocationUrl') = currentPath
    /\ parseSearchParams(SearchOfUrl(LocationUrl')) = result

AppliedAs(shouldReplace) ==
    IF shouldReplace THEN EntryOverwritten(LocationUrl')
                     ELSE EntryRecorded(LocationUrl')

(* The patch as the codec reads it back: no key for null or for an empty   *)
(* list, the element as a string for a list of one.                        *)
PatchAsReadBack(patch) == OverriddenAsReadBack(<<>>, patch, LatestSearch')

(* C31 as stated: setSearchParams(patch, {merge: false}) makes the patch   *)
(* without its null entries the entire new search-param set, leaves the    *)
(* pathname unchanged, and applies the result as a new history entry when  *)
(* replace is false and by overwriting the current entry when it is true.  *)
C31_PatchReplaces ==
    [][\A patch \in Patches, r \in BOOLEAN :
          setSearchParams(patch, [replace |-> r, merge |-> FALSE])
              => /\ LatestSearch' = DeleteNulls(patch)
                 /\ LatestPath' = LatestPath
                 /\ EntryHolds(LatestSearch')
                 /\ AppliedAs(r)]_vars

(* C31 amended: setSearchParams(patch, {merge: false}) makes the patch as  *)
(* the codec reads it back the entire new search-param set (no key for a   *)
(* null or an empty list, a string for a list of one, no key of the        *)
(* previous set kept), leaves the pathname unchanged, and applies the      *)
(* result as a new history entry when replace is false and by overwriting  *)
(* the current entry when it is true.                                      *)
C31_PatchReplacesAsReadBack ==
    [][\A patch \in Patches, r \in BOOLEAN :
          setSearchParams(patch, [replace |-> r, merge |-> FALSE])
              => /\ PatchAsReadBack(patch)
                 /\ LatestPath' = LatestPath
                 /\ EntryHolds(LatestSearch')
                 /\ AppliedAs(r)]_vars

(* On '/a?q=1', {q: null, t: 'x y'} without merge and with replace leaves  *)
(* {t: 'x y'} on the one entry '/a?t=x+y'.                                 *)
C31_Witness ==
    /\ currentPath = <<"/","a">>
    /\ searchParams = << Entry(<<"q">>, StringValue(<<"1">>)) >>
    /\ updates.searchParams = Update(<< Entry(<<"t">>, StringValue(<<"x"," ","y">>)) >>)
    /\ ~updates.currentPath.set
    /\ windowHistory = << <<"/","a","?","t","=","x","+","y">> >>

(* On '/a?q=1', {t: ['x', 'y']} without merge and without replace records  *)
(* '/a?t=x&t=y' after '/a?q=1'.                                            *)
C31_WitnessNewEntry ==
    /\ searchParams = << Entry(<<"q">>, StringValue(<<"1">>)) >>
    /\ updates.searchParams = Update(<< Entry(<<"t">>, ListValue(<< <<"x">>, <<"y">> >>)) >>)
    /\ windowHistory = << <<"/","a","?","q","=","1">>,
                          <<"/","a","?","t","=","x","&","t","=","y">> >>
    /\ windowIndex = 2

(***************************************************************************)
(* Back and forward, in SpecReload.                                        *)
(***************************************************************************)
(* The history entry that is current, as window.location shows it. *)
(* The query of an entry is decoded once for each URL of the model.        *)
EntryPath == PathnameOfUrl(LocationUrl)
decodedSearch == [url \in ReloadTargets |-> parseSearchParams(SearchOfUrl(url))]
EntrySearch == decodedSearch[LocationUrl]

(* C32: on a back/forward event the entry delta away becomes current and   *)
(* the Location is taken from it: afterwards the pathname and the search   *)
(* params are those of that entry, and what is rendered is the selection   *)
(* for it: RouteWithLoader is in the tree exactly when the route selected  *)
(* for the entry's pathname has a loader, and when the route, its params   *)
(* or the search params differ from those rendered before, the effect      *)
(* that runs the loader for them is pending.                               *)
C32_PopStateRederives ==
    [][\A delta \in {-1, 1} :
          (windowIndex' = windowIndex + delta /\ onPopStateAndRender(delta))
              => /\ LocationUrl' = windowHistory[windowIndex + delta]
                 /\ currentPath' = EntryPath'
                 /\ searchParams' = EntrySearch'
                 /\ mounted' = RendersRouteWithLoader(EntryPath')
                 /\ (mounted' /\ PropsFor(EntryPath', EntrySearch') # CurrentProps)
                        => effectPending']_vars

(* '/a?q=1', navigate('/u/2'), then back: the Location is '/a' with        *)
(* {q: '1'} again and the loader of '/a' is about to run for it.           *)
C32_Witness ==
    /\ windowHistory = << <<"/","a","?","q","=","1">>, <<"/","u","/","2">> >>
    /\ windowIndex = 1
    /\ calls = 2
    /\ currentPath = <<"/","a">>
    /\ searchParams = << Entry(<<"q">>, StringValue(<<"1">>)) >>
    /\ mounted /\ effectPending

(***************************************************************************)
(* The frames OlovaRouter renders, in SpecNav.                             *)
(***************************************************************************)
(* The Location of a URL of the session history. *)
decodedQuery ==
    [url \in {windowHistory[i] : i \in 1..Len(windowHistory)} |->
        parseSearchParams(SearchOfUrl(url))]

FromEntry(path, sp) ==
    /\ path = PathnameOfUrl(LocationUrl)
    /\ sp = decodedQuery[LocationUrl]

FromInput(path, sp) ==
    \E input \in NavInputs : path = input.pathname /\ sp = input.params

(* The frame shown is the selection for the pathname it shows. *)
SelectionOfFrame ==
    /\ call.currentPath = currentPath
    /\ call.searchParams = searchParams
    /\ call.params = MatchLoop(sortedRoutes, currentPath).params
    /\ call.component = MatchLoop(sortedRoutes, currentPath).component
    /\ call.layouts = MatchingLayoutsOf(layouts, currentPath)

(* C33: in every rendered state the frame shows the route, the params and  *)
(* the layout chain selected for the pathname it shows, and once the calls *)
(* made are rendered its pathname and search params come from one source:  *)
(* both are those of the navigation input of the last call, or both are    *)
(* those of the history entry that is current.                             *)
C33_FramesFromOneSource ==
    /\ SelectionOfFrame
    /\ updates = NoUpdates =>
          FromInput(currentPath, searchParams) \/ FromEntry(currentPath, searchParams)

(***************************************************************************)
(* What RouteWithLoader renders, in Spec.                                  *)
(***************************************************************************)
(* The render branches as they would be with the error branch first. *)
RenderBranchErrorFirst(loading, error, routeDefinition) ==
    IF error # Null /\ routeDefinition.errorComponent
    THEN [element |-> "ErrorComponent", error |-> error, retry |-> "retry"]
    ELSE IF loading /\ routeDefinition.pendingComponent
    THEN [element |-> "PendingComponent"]
    ELSE IF loading THEN [element |-> "loadingFallback"]
    ELSE [element |-> "Component"]

(* The render branches of RouteWithLoader: the element returned for the    *)
(* cells isLoading and loaderError, with the props it is given.            *)
RenderBranch(loading, error, routeDefinition) ==
    IF loading /\ routeDefinition.pendingComponent
    THEN [element |-> "PendingComponent"]
    ELSE IF loading THEN [element |-> "loadingFallback"]
    ELSE IF error # Null /\ routeDefinition.errorComponent
    THEN [element |-> "ErrorComponent", error |-> error, retry |-> "retry"]
    ELSE [element |-> "Component"]

Shown ==
    IF mounted
    THEN RenderBranch(isLoading, loaderError, CurrentProps.routeDefinition)
    ELSE [element |-> "none"]

(* What is shown while loading, whatever the error cell holds. *)
LoadingShows(element) ==
    \A error \in {loaderError, LoaderFailure(CurrentProps)} :
        RenderBranch(TRUE, error, CurrentProps.routeDefinition).element = element

(* C34: while isLoading is true the pendingComponent of the route is shown *)
(* if it has one and the loadingFallback otherwise, with an error recorded *)
(* or without; while an error is recorded and isLoading is false, the      *)
(* errorComponent of a route that has one is shown with that error and     *)
(* the retry callback; and a call of that callback starts runLoader again  *)
(* for the current params and search params and sets isLoading.            *)
C34_RenderingPrecedence ==
    /\ [](mounted =>
            /\ isLoading =>
                  /\ LoadingShows(IF CurrentProps.routeDefinition.pendingComponent
                                  THEN "PendingComponent" ELSE "loadingFallback")
                  /\ Shown.element \in {"PendingComponent", "loadingFallback"}
            /\ (~isLoading /\ loaderError # Null
                   /\ CurrentProps.routeDefinition.errorComponent)
                  => Shown = [element |-> "ErrorComponent", error |-> loaderError,
                              retry |-> "retry"])
    /\ [][retry =>
            /\ Shown.element = "ErrorComponent"
            /\ isLoading'
            /\ \E r \in runs' :
                  Started(r) /\ r.origin = "retry" /\ r.props = CurrentProps]_vars

(* '/a' failed and retry was called: the loadingFallback is shown while    *)
(* the loader runs again.                                                  *)
C34_Witness ==
    /\ currentPath = <<"/","a">>
    /\ \E r \in runs : r.origin = "retry" /\ r.phase = "loader"
    /\ Shown = [element |-> "loadingFallback"]

(* '/u/1' is loading: its pendingComponent is shown. *)
C34_WitnessPending ==
    /\ currentPath = <<"/","u","/","1">>
    /\ isLoading
    /\ Shown = [element |-> "PendingComponent"]

(* '/a' failed: its errorComponent is shown with the loader's error. *)
C34_WitnessError ==
    /\ currentPath = <<"/","a">>
    /\ Shown = [element |-> "ErrorComponent", error |-> LoaderFailure(CurrentProps),
                retry |-> "retry"]

(***************************************************************************)
(* Progress.  React runs the effect of a render, and every invocation of   *)
(* beforeEnter, of the loader and of the action settles: the continuation  *)
(* of each suspended call is taken.                                        *)
(***************************************************************************)
RunContinues(id) ==
    \E r \in runs :
        /\ r.id = id
        /\ \/ GuardAllows(r) \/ GuardDenies(r) \/ GuardThrows(r)
           \/ LoaderResolves(r) \/ LoaderRejects(r)

SubmitContinues(id) ==
    \E s \in submits :
        /\ s.id = id
        /\ ActionResolves(s) \/ ActionRejects(s) \/ ActionFinishes(s)

Settling ==
    /\ WF_vars(RunEffect)
    /\ \A id \in 1..MaxRuns : WF_vars(RunContinues(id))
    /\ \A id \in 1..MaxSubmits : WF_vars(SubmitContinues(id))

(* The navigations followed for progress, from each of the NavTargets:     *)
(* away to '/', and to '/a?q=1' (an instance of '/a' or '/g' is kept and   *)
(* loads again while its calls are pending).                               *)
SettlingTargets == { <<"/">>, <<"/","a","?","q","=","1">> }

NextSettling ==
    \/ \E path \in SettlingTargets : navigate(path)
    \/ RunEffect
    \/ retry
    \/ \E r \in runs : GuardAllows(r)
    \/ \E r \in runs : GuardDenies(r)
    \/ \E r \in runs : GuardThrows(r)
    \/ \E r \in runs : LoaderResolves(r)
    \/ \E r \in runs : LoaderRejects(r)
    \/ submitAction
    \/ \E s \in submits : ActionResolves(s)
    \/ \E s \in submits : ActionRejects(s)
    \/ \E s \in submits : ActionFinishes(s)

SpecSettling == Init /\ [][NextSettling]_vars /\ Settling

(* C35: when every invocation of beforeEnter, of the loader and of the     *)
(* action settles, every state with isLoading true is followed by a state  *)
(* with isLoading false and every state with isSubmitting true by a state  *)
(* with isSubmitting false, whatever navigations, retries and submissions  *)
(* are made.                                                               *)
C35_LoadingAndSubmittingEnd ==
    /\ isLoading ~> ~isLoading
    /\ isSubmitting ~> ~isSubmitting

(* Three runLoader calls and two submissions were made on the mounted      *)
(* route and all have settled: it is neither loading nor submitting.       *)
C35_Witness ==
    /\ mounted
    /\ nextRun > MaxRuns /\ nextSubmit > MaxSubmits
    /\ runs = {} /\ submits = {}
    /\ ~isLoading /\ ~isSubmitting

(***************************************************************************)
(* Overlapping calls, in Spec.                                             *)
(***************************************************************************)
(* C36: isLoading is false only when no runLoader call started for the     *)
(* route that is mounted, with its current params and search params, is    *)
(* suspended at beforeEnter or at the loader: the settlement of one call   *)
(* does not clear isLoading while another one is pending.                  *)
C36_LoadingWhilePending ==
    (mounted /\ ~isLoading) => ~\E r \in runs : r.props = CurrentProps

(* C37: isSubmitting is true in every state in which a submission of the   *)
(* mounted route is pending, at its action or at the loader re-run it      *)
(* awaits: the end of one submission does not clear isSubmitting while     *)
(* another is pending; and the action data and error stored are those of   *)
(* the submission whose action settled last.                               *)
C37_SubmittingWhilePending ==
    /\ [](submits # {} => isSubmitting)
    /\ [][\A s \in submits :
             /\ ActionResolves(s) => actionData' = ActionResult(s.props)
             /\ ActionRejects(s) => actionError' = ActionFailure(s.props)]_vars

(***************************************************************************)
(* Calls made before the router renders again, in SpecNav.                 *)
(***************************************************************************)
(* C38: after every sequence of navigate, push, replace, setSearchParams   *)
(* and back/forward events, rendered or not, the Location the router has   *)
(* is that of the current history entry: its pathname, and its query as    *)
(* parseSearchParams decodes it.                                           *)
C38_LocationIsCurrentEntry ==
    /\ LatestPath = PathnameOfUrl(LocationUrl)
    /\ LatestSearch = parseSearchParams(SearchOfUrl(LocationUrl))

(* The calls made since the last render were calls of setSearchParams. *)
AfterSetSearchParams == updates.searchParams.set /\ ~updates.currentPath.set

(* The calls made since the last render include navigate, push or replace. *)
AfterNavigate == updates.currentPath.set

(* C39: a setSearchParams(patch, {merge: true}) made after another         *)
(* setSearchParams call and before the render merges the patch into the    *)
(* search params that call produced, so that the result holds the effects  *)
(* of both; and a setSearchParams made after navigate and before the       *)
(* render leaves the router on the pathname of the navigation.             *)
C39_MutationsCompose ==
    [][\A patch \in Patches, options \in Options :
          setSearchParams(patch, options) =>
              /\ (AfterSetSearchParams /\ options.merge)
                    => OverriddenAsReadBack(LatestSearch, patch, LatestSearch')
              /\ AfterNavigate => LatestPath' = LatestPath]_vars

====
